---- MODULE Spec2Model ----
(***************************************************************************)
(* A model of the scene-graph and frame core of DyngineRust:               *)
(*   - PerspectiveCamera and CameraRenderNode  (core/scenelib/src/camera.rs)*)
(*   - the ECS systems and the entity bridge   (core/scenelib/src/ecs.rs)  *)
(*   - RenderScene                             (core/scenelib/src/scene.rs)*)
(*   - EngineInstance                          (core/src/engine.rs)        *)
(*                                                                         *)
(* Numbers.  f32 values are modelled by integers (rounding is not          *)
(* modelled).  Vectors are integer triples.  A rotation (Quat) is the      *)
(* triple of the images of the x, y and z axes; the model uses rotations   *)
(* by whole quarter turns, so ECS angles (radians in the code) are         *)
(* counted in quarter turns and Euler-setter arguments (degrees in the     *)
(* code) are multiples of 90.  Field-of-view numbers are carried in        *)
(* hundredths so  that to_radians is a real conversion.                    *)
(***************************************************************************)
EXTENDS Integers, Sequences, FiniteSets, TLC

VARIABLES
    cam,        \* SpecCamera: one PerspectiveCamera value
    camPre,     \* SpecCamera: the camera as it was before the last operation
    camOp,      \* SpecCamera: name of the operation applied last
    camPrevOp,  \* SpecCamera: name of the operation applied before that
    camOps,     \* SpecCamera: number of operations applied since new()
    world,      \* the specs World: component storages and resources
    worldPre,   \* SpecECS: the World as it was before the last system run
    ecsOp,      \* SpecECS: name of the system run last
    ecsRuns,    \* SpecECS: number of system runs so far
    tasks,      \* SpecPar: the tasks of the par_join that is running
    nodes,          \* RenderScene.nodes: handle -> CameraRenderNode
    scene_cameras,  \* RenderScene: the sequence of camera handles
    next_handle,    \* RenderScene: the next handle add_node hands out
    log,            \* the GPU and scene events of the last operation, in order
    lastOp,         \* the last operation on the scene or engine and its handle
    started,            \* EngineInstance.engine_core_state is Some
    ecs_entities,       \* ECSWorld.ecs_entities: entity handle -> CameraEntity
    camera_handles,     \* ECSWorld.camera_handles
    next_entiy_handle,  \* ECSWorld.next_entiy_handle
    instance_movement_input,  \* EngineInstance.movement_input
    keyboard_input_handlers, \* InputHandler: device -> (key -> ElementState)
    panicked,           \* a call into the engine panicked (the host is unwinding)
    host,               \* what the host did: mouse motions since the last
                        \* dispatch, last middle-button and key events, the
                        \* device of the first key event, last viewport;
                        \* SpecRuntime: the window's focus flag, the event
                        \* loop's mouse_input_valid and the last state the
                        \* window system reported for each key
    hostCalls           \* number of calls the host made (where they are counted)

camVars == <<cam, camPre, camOp, camPrevOp, camOps>>

ecsVars == <<world, worldPre, ecsOp, ecsRuns, tasks>>

sceneVars == <<nodes, scene_cameras, next_handle, log, lastOp>>

engineVars ==
    <<started, ecs_entities, camera_handles, next_entiy_handle,
      instance_movement_input, keyboard_input_handlers, panicked, host, hostCalls>>

vars ==
    <<cam, camPre, camOp, camPrevOp, camOps, world, worldPre, ecsOp, ecsRuns, tasks,
      nodes, scene_cameras, next_handle, log, lastOp,
      started, ecs_entities, camera_handles, next_entiy_handle,
      instance_movement_input, keyboard_input_handlers, panicked, host, hostCalls>>

-----------------------------------------------------------------------------
(* glam: Vec3A arithmetic *)

Vec(x, y, z) == <<x, y, z>>

ZERO == <<0, 0, 0>>

VAdd(a, b) == <<a[1] + b[1], a[2] + b[2], a[3] + b[3]>>

VNeg(a) == <<0 - a[1], 0 - a[2], 0 - a[3]>>

VScale(a, k) == <<a[1] * k, a[2] * k, a[3] * k>>

Dot(a, b) == a[1] * b[1] + a[2] * b[2] + a[3] * b[3]

Cross(a, b) ==
    << a[2] * b[3] - a[3] * b[2],
       a[3] * b[1] - a[1] * b[3],
       a[1] * b[2] - a[2] * b[1] >>

(* Option<T>: None is <<>>, Some(v) is <<v>> *)
None == <<>>

Some(v) == <<v>>

-----------------------------------------------------------------------------
(* trigonometry on whole quarter turns *)

Cos4(k) == CASE k % 4 = 0 -> 1 [] k % 4 = 1 -> 0 [] k % 4 = 2 -> -1 [] OTHER -> 0

Sin4(k) == CASE k % 4 = 0 -> 0 [] k % 4 = 1 -> 1 [] k % 4 = 2 -> 0 [] OTHER -> -1

(* f32::to_radians followed by cos / sin, for an argument in degrees that is
   a multiple of 90 *)
CosDeg(d) == Cos4(d \div 90)

SinDeg(d) == Sin4(d \div 90)

(* f32::to_radians on a number carried in hundredths: x * pi / 180, with
   355/113 for pi *)
to_radians(x) == (x * 355) \div (113 * 180)

-----------------------------------------------------------------------------
(* glam: Quat as a rotation *)

QuatIDENTITY == << <<1, 0, 0>>, <<0, 1, 0>>, <<0, 0, 1>> >>

(* Quat * Vec3A *)
QuatMulVec(q, v) == VAdd(VAdd(VScale(q[1], v[1]), VScale(q[2], v[2])), VScale(q[3], v[3]))

(* Quat * Quat: apply b, then a *)
QuatMul(a, b) == << QuatMulVec(a, b[1]), QuatMulVec(a, b[2]), QuatMulVec(a, b[3]) >>

from_rotation_x(k) == << <<1, 0, 0>>, <<0, Cos4(k), Sin4(k)>>, <<0, 0 - Sin4(k), Cos4(k)>> >>

from_rotation_y(k) == << <<Cos4(k), 0, 0 - Sin4(k)>>, <<0, 1, 0>>, <<Sin4(k), 0, Cos4(k)>> >>

from_rotation_z(k) == << <<Cos4(k), Sin4(k), 0>>, <<0 - Sin4(k), Cos4(k), 0>>, <<0, 0, 1>> >>

(* Quat::from_euler(EulerRot::ZYX, a, b, c) *)
from_euler_ZYX(a, b, c) == QuatMul(QuatMul(from_rotation_z(a), from_rotation_y(b)), from_rotation_x(c))

-----------------------------------------------------------------------------
(* glam: Mat4.  The product projection * view is carried as the pair of its
   factors, each given by the quantities glam computes it from. *)

look_at_lh(eye, center, up) ==
    LET f == VAdd(center, VNeg(eye))
        s == Cross(up, f)
        u == Cross(f, s)
    IN  [s |-> s, u |-> u, f |-> f,
         t |-> <<0 - Dot(s, eye), 0 - Dot(u, eye), 0 - Dot(f, eye)>>]

perspective_lh(fov, aspect, near, far) ==
    [fov |-> fov, aspect |-> aspect, near |-> near, far |-> Some(far)]

perspective_infinite_lh(fov, aspect, near) ==
    [fov |-> fov, aspect |-> aspect, near |-> near, far |-> None]

MatMul(projection_matrix, view_matrix) == [proj |-> projection_matrix, view |-> view_matrix]

(* the hard-coded identity of PerspectiveCamera::new *)
IdentityBlock ==
    [proj |-> [fov |-> 0, aspect |-> 0, near |-> 0, far |-> None],
     view |-> [s |-> <<1, 0, 0>>, u |-> <<0, 1, 0>>, f |-> <<0, 0, 1>>, t |-> ZERO]]

-----------------------------------------------------------------------------
(* PerspectiveCamera *)

PerspectiveCamera_new(position, direction, forward_axis, up_axis, fov_degrees, near, far, aspect) ==
    [position |-> position,
     direction |-> direction,
     right |-> Cross(up_axis, direction),
     forward_axis |-> forward_axis,
     up_axis |-> up_axis,
     up |-> Cross(direction, Cross(up_axis, direction)),
     aspect |-> aspect,
     fov |-> to_radians(fov_degrees),
     near |-> near,
     far |-> far,
     dirty |-> TRUE,
     camera_shader_state |-> IdentityBlock]

(* the value update() stores: projection_matrix * view_matrix *)
view_proj(c) ==
    LET view_matrix == look_at_lh(c.position, VAdd(c.position, c.direction), c.up)
        projection_matrix ==
            IF c.far # None
            THEN perspective_lh(c.fov, c.aspect, c.near, c.far[1])
            ELSE perspective_infinite_lh(c.fov, c.aspect, c.near)
    IN  MatMul(projection_matrix, view_matrix)

update_keeps_dirty(c) ==
    IF ~c.dirty THEN c
    ELSE [c EXCEPT !.camera_shader_state = view_proj(c)]

update(c) ==
    IF ~c.dirty THEN c
    ELSE [c EXCEPT !.camera_shader_state = view_proj(c), !.dirty = FALSE]

set_up_axis(c, up_axis) ==
    IF c.up_axis = up_axis THEN c
    ELSE [c EXCEPT !.up_axis = up_axis,
                   !.up = Cross(c.direction, Cross(up_axis, c.direction)),
                   !.dirty = TRUE]

set_position_no_compare(c, position) ==
    [c EXCEPT !.position = position, !.dirty = TRUE]

set_position(c, position) ==
    IF c.position = position THEN c
    ELSE [c EXCEPT !.position = position, !.dirty = TRUE]

set_aspect_no_compare(c, aspect) ==
    [c EXCEPT !.aspect = aspect, !.dirty = TRUE]

set_direction(c, direction) ==
    IF c.direction = direction THEN c
    ELSE LET right == Cross(c.up_axis, direction)
         IN  [c EXCEPT !.direction = direction,
                       !.right = right,
                       !.up = Cross(direction, Cross(right, direction)),
                       !.dirty = TRUE]

set_aspect(c, aspect) ==
    IF c.aspect = aspect THEN c
    ELSE [c EXCEPT !.aspect = aspect, !.dirty = TRUE]

set_fov(c, fov) ==
    IF c.fov = fov THEN c
    ELSE [c EXCEPT !.fov = fov, !.dirty = TRUE]

set_near(c, near) ==
    IF c.near = near THEN c
    ELSE [c EXCEPT !.near = near, !.dirty = TRUE]

set_far(c, far) ==
    IF c.far = Some(far) THEN c
    ELSE [c EXCEPT !.far = Some(far), !.dirty = TRUE]

set_rotation_compares_direction(c, rotation) ==
    LET direction == QuatMulVec(rotation, c.forward_axis)
        up == QuatMulVec(rotation, c.up_axis)
        right == Cross(up, direction)
    IN  [c EXCEPT !.dirty = (c.dirty \/ c.direction # direction),
                  !.direction = direction,
                  !.up = up,
                  !.right = right]

set_rotation(c, rotation) ==
    LET direction == QuatMulVec(rotation, c.forward_axis)
        up == QuatMulVec(rotation, c.up_axis)
        right == Cross(up, direction)
    IN  [c EXCEPT !.dirty = (c.dirty \/ c.direction # direction \/ c.up # up \/ c.right # right),
                  !.direction = direction,
                  !.up = up,
                  !.right = right]

set_rotation_euler(c, yaw_degrees, pitch_degrees) ==
    LET direction == << CosDeg(yaw_degrees) * CosDeg(pitch_degrees),
                        SinDeg(pitch_degrees),
                        SinDeg(yaw_degrees) * CosDeg(pitch_degrees) >>
        right == Cross(c.up_axis, direction)
    IN  [c EXCEPT !.direction = direction,
                  !.right = right,
                  !.up = Cross(direction, right),
                  !.dirty = TRUE]

set_roll_euler(c, roll_degrees) ==
    LET up_axis == << CosDeg(roll_degrees), SinDeg(roll_degrees), c.up_axis[3] >>
        right == Cross(up_axis, c.direction)
    IN  [c EXCEPT !.up_axis = up_axis,
                  !.right = right,
                  !.up = Cross(c.direction, right),
                  !.dirty = TRUE]

-----------------------------------------------------------------------------
(* The specs World of ECSWorld: one storage per component type, each a
   function from the entity to Option<component>, and the two resources.
   delta_time is counted in half seconds and positions in half units, so
   that position += velocity * delta_time stays in integers for a frame of
   half a second; velocities and axes are in whole units. *)

MovementInput_new ==
    [forward |-> FALSE, backward |-> FALSE, left |-> FALSE, right |-> FALSE,
     up |-> FALSE, down |-> FALSE, sprinting |-> FALSE, should_roll |-> FALSE,
     delta_yaw |-> 0, delta_pitch |-> 0]

new_frame_clears_should_roll(m) ==
    [m EXCEPT !.forward = FALSE, !.backward = FALSE, !.left = FALSE, !.right = FALSE,
              !.up = FALSE, !.down = FALSE, !.sprinting = FALSE, !.should_roll = FALSE,
              !.delta_yaw = 0, !.delta_pitch = 0]

(* MovementInput::new_frame: should_roll is not among the fields it clears *)
new_frame(m) ==
    [m EXCEPT !.forward = FALSE, !.backward = FALSE, !.left = FALSE, !.right = FALSE,
              !.up = FALSE, !.down = FALSE, !.sprinting = FALSE,
              !.delta_yaw = 0, !.delta_pitch = 0]

Xor(a, b) == a # b

World_new ==
    [entities |-> {},
     delta_time |-> 0,
     movement_input |-> MovementInput_new,
     positions |-> <<>>,
     velocities |-> <<>>,
     rotations |-> <<>>,
     cameras |-> <<>>,
     flying_cameras |-> {}]

(* (&velocities, &mut positions).par_join() *)
IntegratorJoin(w) == {e \in w.entities : w.velocities[e] # None /\ w.positions[e] # None}

integrate_ignores_delta_time(w, e) == VAdd(w.positions[e][1], w.velocities[e][1])

(* the closure of NewtonianExplicitIntegratorSystem::run, for one entity *)
integrate(w, e) == VAdd(w.positions[e][1], VScale(w.velocities[e][1], w.delta_time))

NewtonianExplicitIntegratorSystem_run(w) ==
    [w EXCEPT !.positions =
        [e \in w.entities |->
            IF e \in IntegratorJoin(w) THEN Some(integrate(w, e)) ELSE w.positions[e]]]

FlyingCameraJoin_without_marker(w) ==
    {e \in w.entities : /\ w.rotations[e] # None
                        /\ w.velocities[e] # None
                        /\ w.cameras[e] # None}

(* (&mut rotations, &mut velocities, &cameras, &flying_cameras).join() *)
FlyingCameraJoin(w) ==
    {e \in w.entities : /\ w.rotations[e] # None
                        /\ w.velocities[e] # None
                        /\ w.cameras[e] # None
                        /\ e \in w.flying_cameras}

rotate_roll_adds_pitch(rotation, movement_input) ==
    LET yaw == IF ~movement_input.should_roll
               THEN rotation.yaw + movement_input.delta_yaw ELSE rotation.yaw
        pitch == rotation.pitch + movement_input.delta_pitch
        roll == IF ~movement_input.should_roll
                THEN rotation.roll ELSE rotation.roll + movement_input.delta_yaw
    IN  [yaw |-> yaw, pitch |-> pitch, roll |-> roll,
         quaternion |-> from_euler_ZYX(roll, yaw, pitch)]

(* FlyingCameraSystem::run, "Rotate the camera" *)
rotate_stale_quaternion(rotation, movement_input) ==
    LET yaw == IF ~movement_input.should_roll
               THEN rotation.yaw + movement_input.delta_yaw ELSE rotation.yaw
        pitch == IF ~movement_input.should_roll
                 THEN rotation.pitch + movement_input.delta_pitch ELSE rotation.pitch
        roll == IF ~movement_input.should_roll
                THEN rotation.roll ELSE rotation.roll + movement_input.delta_yaw
    IN  [yaw |-> yaw, pitch |-> pitch, roll |-> roll,
         quaternion |-> from_euler_ZYX(rotation.roll, rotation.yaw, rotation.pitch)]

rotate(rotation, movement_input) ==
    LET yaw == IF ~movement_input.should_roll
               THEN rotation.yaw + movement_input.delta_yaw ELSE rotation.yaw
        pitch == IF ~movement_input.should_roll
                 THEN rotation.pitch + movement_input.delta_pitch ELSE rotation.pitch
        roll == IF ~movement_input.should_roll
                THEN rotation.roll ELSE rotation.roll + movement_input.delta_yaw
    IN  [yaw |-> yaw, pitch |-> pitch, roll |-> roll,
         quaternion |-> from_euler_ZYX(roll, yaw, pitch)]

move_velocity_accumulates(velocity, quaternion, camera, movement_input) ==
    LET forward == QuatMulVec(quaternion, camera.forward_axis)
        up == QuatMulVec(quaternion, camera.up_axis)
        right == Cross(up, forward)
        d1 == IF Xor(movement_input.forward, movement_input.backward)
              THEN (IF movement_input.forward THEN forward ELSE VNeg(forward)) ELSE ZERO
        d2 == IF Xor(movement_input.left, movement_input.right)
              THEN (IF movement_input.right THEN right ELSE VNeg(right)) ELSE ZERO
        d3 == IF Xor(movement_input.up, movement_input.down)
              THEN (IF movement_input.up THEN up ELSE VNeg(up)) ELSE ZERO
        move_dir == VAdd(VAdd(VAdd(ZERO, d1), d2), d3)
    IN  VAdd(velocity, VScale(move_dir, IF movement_input.sprinting THEN 2 ELSE 1))

(* FlyingCameraSystem::run, "Add movement input to velocity": the value
   assigned to velocity.velocity; quaternion is the one just recomputed *)
move_velocity(velocity, quaternion, camera, movement_input) ==
    LET forward == QuatMulVec(quaternion, camera.forward_axis)
        up == QuatMulVec(quaternion, camera.up_axis)
        right == Cross(up, forward)
        d1 == IF Xor(movement_input.forward, movement_input.backward)
              THEN (IF movement_input.forward THEN forward ELSE VNeg(forward)) ELSE ZERO
        d2 == IF Xor(movement_input.left, movement_input.right)
              THEN (IF movement_input.right THEN right ELSE VNeg(right)) ELSE ZERO
        d3 == IF Xor(movement_input.up, movement_input.down)
              THEN (IF movement_input.up THEN up ELSE VNeg(up)) ELSE ZERO
        move_dir == VAdd(VAdd(VAdd(ZERO, d1), d2), d3)
    IN  VScale(move_dir, IF movement_input.sprinting THEN 2 ELSE 1)

FlyingCameraSystem_run(w) ==
    LET movement_input == w.movement_input
        matched == FlyingCameraJoin(w)
        rotated == [e \in matched |-> rotate(w.rotations[e][1], movement_input)]
    IN  [w EXCEPT
            !.rotations = [e \in w.entities |->
                IF e \in matched THEN Some(rotated[e]) ELSE w.rotations[e]],
            !.velocities = [e \in w.entities |->
                IF e \in matched
                THEN Some(move_velocity(w.velocities[e][1], rotated[e].quaternion,
                                        w.cameras[e][1], movement_input))
                ELSE w.velocities[e]]]

-----------------------------------------------------------------------------
(* CameraRenderNode.  camera_buffer is the content of the wgpu uniform
   buffer; the bind group is fixed at creation and refers to that buffer. *)

(* the node built by CameraRenderNode::add_new *)
CameraRenderNode_new(camera) ==
    [camera |-> camera,
     camera_buffer |-> camera.camera_shader_state,
     is_active_camera |-> FALSE,
     dirty |-> FALSE]

set_active_keeps_clean(n) ==
    IF n.is_active_camera THEN n
    ELSE [n EXCEPT !.is_active_camera = TRUE]

set_active_no_check(n) == [n EXCEPT !.is_active_camera = TRUE, !.dirty = TRUE]

set_active(n) ==
    IF n.is_active_camera THEN n
    ELSE [n EXCEPT !.is_active_camera = TRUE, !.dirty = TRUE]

set_inactive_stays_active(n) == n

set_inactive(n) ==
    IF ~n.is_active_camera THEN n
    ELSE [n EXCEPT !.is_active_camera = FALSE, !.dirty = TRUE]

is_dirty(n) == n.dirty \/ n.camera.dirty

Event(ev, h) == [ev |-> ev, h |-> h]

resolve_dirty_state_writes_inactive(n, h) ==
    LET was_camera_dirty == n.camera.dirty
        was_camera_render_node_dirty == n.dirty
        camera == IF n.camera.dirty THEN update(n.camera) ELSE n.camera
        write == was_camera_dirty \/ was_camera_render_node_dirty
    IN  [node |-> [n EXCEPT !.camera = camera,
                            !.dirty = FALSE,
                            !.camera_buffer = IF write THEN camera.camera_shader_state ELSE @],
         events |-> IF write THEN <<Event("write_buffer", h)>> ELSE <<>>]

resolve_dirty_state_leaves_inactive(n, h) ==
    LET was_camera_dirty == n.camera.dirty
        was_camera_render_node_dirty == n.dirty
        camera == IF n.camera.dirty THEN update(n.camera) ELSE n.camera
        write == n.is_active_camera /\ (was_camera_dirty \/ was_camera_render_node_dirty)
    IN  [node |-> IF n.is_active_camera
                  THEN [n EXCEPT !.camera = camera,
                                 !.dirty = FALSE,
                                 !.camera_buffer =
                                     IF write THEN camera.camera_shader_state ELSE @]
                  ELSE n,
         events |-> IF write THEN <<Event("write_buffer", h)>> ELSE <<>>]

(* resolve_dirty_state of the node with handle h: the node afterwards and
   the queue.write_buffer calls it made *)
resolve_dirty_state(n, h) ==
    LET was_camera_dirty == n.camera.dirty
        was_camera_render_node_dirty == n.dirty
        camera == IF n.camera.dirty THEN update(n.camera) ELSE n.camera
        write == n.is_active_camera /\ (was_camera_dirty \/ was_camera_render_node_dirty)
    IN  [node |-> [n EXCEPT !.camera = camera,
                            !.dirty = FALSE,
                            !.camera_buffer = IF write THEN camera.camera_shader_state ELSE @],
         events |-> IF write THEN <<Event("write_buffer", h)>> ELSE <<>>]

(* RenderNode::render of CameraRenderNode: set_bind_group(0, camera_bind_group) *)
render_node(n, h) == <<Event("set_bind_group", h)>>

-----------------------------------------------------------------------------
(* RenderScene.  nodes is the HashMap handle -> node; a pass over it visits
   the keys in an order the map chooses, given here as the sequence order. *)

RECURSIVE RenderScene_render_records_first(_, _)
RenderScene_render_records_first(ns, order) ==
    IF order = <<>> THEN [nodes |-> ns, events |-> <<>>]
    ELSE LET h == Head(order)
             resolved == IF is_dirty(ns[h])
                         THEN resolve_dirty_state(ns[h], h)
                         ELSE [node |-> ns[h], events |-> <<>>]
             rest == RenderScene_render_records_first([ns EXCEPT ![h] = resolved.node],
                                                      Tail(order))
         IN  [nodes |-> rest.nodes,
              events |-> render_node(ns[h], h)
                            \o (IF is_dirty(ns[h]) THEN <<Event("resolve_dirty_state", h)>>
                                ELSE <<>>)
                            \o resolved.events \o rest.events]

RECURSIVE RenderScene_render(_, _)
RenderScene_render(ns, order) ==
    IF order = <<>> THEN [nodes |-> ns, events |-> <<>>]
    ELSE LET h == Head(order)
             resolved == IF is_dirty(ns[h])
                         THEN resolve_dirty_state(ns[h], h)
                         ELSE [node |-> ns[h], events |-> <<>>]
             rest == RenderScene_render([ns EXCEPT ![h] = resolved.node], Tail(order))
         IN  [nodes |-> rest.nodes,
              events |-> (IF is_dirty(ns[h]) THEN <<Event("resolve_dirty_state", h)>> ELSE <<>>)
                            \o resolved.events \o render_node(resolved.node, h) \o rest.events]

(* the orders in which a pass can visit the keys of a map *)
IterationOrders(f) ==
    {o \in [1..Cardinality(DOMAIN f) -> DOMAIN f] :
        \A i, j \in 1..Cardinality(DOMAIN f) : i # j => o[i] # o[j]}

Range(f) == {f[i] : i \in DOMAIN f}

(* RenderScene::add_node(node) -> handle *)
RenderScene_add_node(ns, cams, next, node) ==
    [nodes |-> [h \in DOMAIN ns \cup {next} |-> IF h = next THEN node ELSE ns[h]],
     cameras |-> Append(cams, next),
     next_handle |-> next + 1,
     handle |-> next]

(* RenderScene::set_active_camera(handle) *)
RenderScene_set_active_camera(ns, cams, handle) ==
    [h \in DOMAIN ns |->
        IF h = handle THEN set_active(ns[h])
        ELSE IF h \in Range(cams) THEN set_inactive(ns[h])
        ELSE ns[h]]

-----------------------------------------------------------------------------
(* SpecCamera: one camera, constructed and then driven through its public
   operations *)

MaxCamOps == 3

UnitX == <<1, 0, 0>>

UnitY == <<0, 1, 0>>

UnitZ == <<0, 0, 1>>

ArgPositions == {<<0, 0, -5>>, ZERO}

ArgAxes == {UnitX, UnitY, UnitZ, VNeg(UnitZ)}

ArgQuats == {QuatIDENTITY, from_rotation_x(1), from_rotation_y(1), from_rotation_z(1)}

ArgDegrees == {0, 90}

ArgFovDegrees == {7000, 9000}

ArgFov == {to_radians(d) : d \in ArgFovDegrees}

ArgScalars == {1, 2}

ArgFar == {10, 20}

CamIdle ==
    /\ cam = PerspectiveCamera_new(ZERO, UnitZ, UnitZ, UnitY, 7000, 1, None, 1)
    /\ camPre = cam
    /\ camOp = "new"
    /\ camPrevOp = "new"
    /\ camOps = 0

EcsIdle ==
    /\ world = World_new
    /\ worldPre = world
    /\ ecsOp = "new"
    /\ ecsRuns = 0
    /\ tasks = <<>>

(* RenderScene::new *)
SceneNew ==
    /\ nodes = <<>>
    /\ scene_cameras = <<>>
    /\ next_handle = 1
    /\ log = <<>>
    /\ lastOp = Event("new", 0)

(* bytes that are no glTF document; also what the host record holds when
   the host loads no document *)
NoBytes == [valid |-> FALSE, nodes |-> <<>>]

(* the record of a host that has made no call, with the bytes it will load *)
HostNew(gltf_bytes) ==
    [motions |-> <<>>, middle |-> "None", keys |-> <<>>, first |-> None,
     viewport |-> [x |-> 0, y |-> 0, width |-> 0, height |-> 0],
     gltf_bytes |-> gltf_bytes,
     has_focus |-> FALSE, mouse_input_valid |-> FALSE, physical |-> <<>>]

(* EngineInstance::new: no core state yet *)
EngineNewWith(gltf_bytes) ==
    /\ started = FALSE
    /\ ecs_entities = <<>>
    /\ camera_handles = <<>>
    /\ next_entiy_handle = 1
    /\ instance_movement_input = MovementInput_new
    /\ keyboard_input_handlers = <<>>
    /\ panicked = FALSE
    /\ host = HostNew(gltf_bytes)
    /\ hostCalls = 0

EngineNew == EngineNewWith(NoBytes)

CamInit ==
    /\ EcsIdle
    /\ SceneNew
    /\ EngineNew
    /\ \E position \in ArgPositions, direction \in {UnitZ, UnitX}, far \in {None, Some(10)} :
          cam = PerspectiveCamera_new(position, direction, UnitZ, UnitY, 7000, 1, far, 1)
    /\ camPre = cam
    /\ camOp = "new"
    /\ camPrevOp = "new"
    /\ camOps = 0

CamStep(op, c) ==
    /\ camOps < MaxCamOps
    /\ cam' = c
    /\ camPre' = cam
    /\ camOp' = op
    /\ camPrevOp' = camOp
    /\ camOps' = camOps + 1
    /\ UNCHANGED <<ecsVars, sceneVars, engineVars>>

CamUpdate == CamStep("update", update(cam))

CamSetPosition == \E v \in ArgPositions : CamStep("set_position", set_position(cam, v))

CamSetDirection == \E v \in ArgAxes : CamStep("set_direction", set_direction(cam, v))

CamSetUpAxis == \E v \in ArgAxes : CamStep("set_up_axis", set_up_axis(cam, v))

CamSetAspect == \E a \in ArgScalars : CamStep("set_aspect", set_aspect(cam, a))

CamSetFov == \E a \in ArgFov : CamStep("set_fov", set_fov(cam, a))

CamSetNear == \E a \in ArgScalars : CamStep("set_near", set_near(cam, a))

CamSetFar == \E a \in ArgFar : CamStep("set_far", set_far(cam, a))

CamSetRotation == \E q \in ArgQuats : CamStep("set_rotation", set_rotation(cam, q))

CamSetRotationEuler ==
    \E yaw \in ArgDegrees, pitch \in ArgDegrees :
        CamStep("set_rotation_euler", set_rotation_euler(cam, yaw, pitch))

CamSetRollEuler == \E roll \in ArgDegrees : CamStep("set_roll_euler", set_roll_euler(cam, roll))

CamNext ==
    \/ CamUpdate
    \/ CamSetPosition
    \/ CamSetDirection
    \/ CamSetUpAxis
    \/ CamSetAspect
    \/ CamSetFov
    \/ CamSetNear
    \/ CamSetFar
    \/ CamSetRotation
    \/ CamSetRotationEuler
    \/ CamSetRollEuler

SpecCamera == CamInit /\ [][CamNext]_vars

-----------------------------------------------------------------------------
(* Properties of PerspectiveCamera, checked under SpecCamera *)

ComparingSetters ==
    {"set_position", "set_direction", "set_up_axis", "set_aspect", "set_fov",
     "set_near", "set_far", "set_rotation"}

EulerSetters == {"set_rotation_euler", "set_roll_euler"}

(* the last call left every field other than the dirty flag as it was *)
CamValueKept == [cam EXCEPT !.dirty = camPre.dirty] = camPre

(* C4, as stated: every one of the ten setters, applied to a clean camera,
   leaves dirty false when its argument reproduces the existing value and
   sets dirty when the argument changes the value. *)
C4_DirtyGatingAllSetters ==
    (camOp \in ComparingSetters \cup EulerSetters /\ ~camPre.dirty)
        => (cam.dirty <=> ~CamValueKept)

(* C4, amended: the eight setters that compare (the value setters and
   set_rotation), applied to a clean camera, leave dirty false when the
   argument reproduces the existing value and set dirty when it changes the
   value; set_rotation_euler and set_roll_euler set dirty on every call. *)
C4_DirtyGatingComparingSetters ==
    /\ (camOp \in ComparingSetters /\ ~camPre.dirty) => (cam.dirty <=> ~CamValueKept)
    /\ camOp \in EulerSetters => cam.dirty

C4_Witness ==
    /\ camOp \in ComparingSetters
    /\ ~camPre.dirty
    /\ ~cam.dirty
    /\ CamValueKept

(* C5: update() on a clean camera changes nothing; update() on a dirty
   camera stores the block computed from the current fields, clears dirty and
   changes no other field. *)
C5_UpdateCleanIsNoOp ==
    camOp = "update" =>
        IF ~camPre.dirty
        THEN cam = camPre
        ELSE /\ ~cam.dirty
             /\ cam.camera_shader_state = view_proj(cam)
             /\ [cam EXCEPT !.dirty = TRUE,
                            !.camera_shader_state = camPre.camera_shader_state] = camPre

C5_Witness ==
    /\ camOp = "update"
    /\ camPrevOp = "update"
    /\ ~camPre.dirty
    /\ cam.camera_shader_state = view_proj(cam)

(* C6: after construction and after every call of set_direction,
   set_up_axis, set_rotation_euler or set_roll_euler that changes the camera,
   right = up_axis x direction and up = direction x right. *)
C6_DerivedBasis ==
    (\/ camOp = "new"
     \/ /\ camOp \in {"set_direction", "set_up_axis", "set_rotation_euler", "set_roll_euler"}
        /\ cam # camPre)
        => /\ cam.right = Cross(cam.up_axis, cam.direction)
           /\ cam.up = Cross(cam.direction, cam.right)

IsUnit(v) == Dot(v, v) = 1

UnitPerpendicular(a, b) == IsUnit(a) /\ IsUnit(b) /\ Dot(a, b) = 0

(* C7: a camera constructed with unit, perpendicular direction and up-axis,
   after one set_direction or set_up_axis call that again leaves them unit
   and perpendicular, followed by a resolve, has right, up and direction
   pairwise orthogonal and none of them zero. *)
C7_OrthogonalBasis ==
    (/\ camOps = 2
     /\ camOp = "update"
     /\ camPrevOp \in {"set_direction", "set_up_axis"}
     /\ UnitPerpendicular(cam.direction, cam.up_axis))
        => /\ Dot(cam.right, cam.direction) = 0
           /\ Dot(cam.up, cam.direction) = 0
           /\ Dot(cam.right, cam.up) = 0
           /\ cam.right # ZERO /\ cam.up # ZERO /\ cam.direction # ZERO

-----------------------------------------------------------------------------
(* SpecECS: a World holding a flying camera entity (1) and a second entity
   (2) that lacks some component, on which the two systems are run *)

MaxEcsRuns == 1

ArgDeltaTimes == {0, 1, 2}

ArgAngles == {<<0, 0, 0>>, <<1, 0, 0>>, <<0, -1, 1>>}

ArgRotationInputs == {<<FALSE, 0, 0>>, <<FALSE, 1, -1>>, <<TRUE, 1, -1>>}

ArgMovementInputs ==
    {[forward |-> f, backward |-> b, left |-> l, right |-> r, up |-> u, down |-> d,
      sprinting |-> s, should_roll |-> ri[1], delta_yaw |-> ri[2], delta_pitch |-> ri[3]] :
        f \in BOOLEAN, b \in BOOLEAN, l \in BOOLEAN, r \in BOOLEAN, u \in BOOLEAN,
        d \in BOOLEAN, s \in BOOLEAN, ri \in ArgRotationInputs}

RotationComponent(yaw, pitch, roll) ==
    [yaw |-> yaw, pitch |-> pitch, roll |-> roll,
     quaternion |-> from_euler_ZYX(roll, yaw, pitch)]

CameraComponent(forward_axis, up_axis, fov) ==
    [forward_axis |-> forward_axis, up_axis |-> up_axis, fov |-> fov]

(* the component sets of the second entity: position and velocity only,
   position only, velocity only, and a camera without the flying marker *)
ArgSecondEntity ==
    { [position |-> Some(<<2, 0, 0>>), velocity |-> Some(<<1, 0, -1>>),
       rotation |-> None, camera |-> None],
      [position |-> Some(<<2, 0, 0>>), velocity |-> None,
       rotation |-> None, camera |-> None],
      [position |-> None, velocity |-> Some(<<1, 0, -1>>),
       rotation |-> None, camera |-> None],
      [position |-> Some(<<2, 0, 0>>), velocity |-> Some(<<1, 0, -1>>),
       rotation |-> Some(RotationComponent(0, 0, 0)),
       camera |-> Some(CameraComponent(UnitZ, UnitY, 7000))] }

EcsInit ==
    /\ CamIdle
    /\ SceneNew
    /\ EngineNew
    /\ \E a \in ArgAngles, second \in ArgSecondEntity :
          world = [World_new EXCEPT
                      !.entities = {1, 2},
                      !.positions = <<Some(<<0, 0, -10>>), second.position>>,
                      !.velocities = <<Some(<<3, 0, 0>>), second.velocity>>,
                      !.rotations = <<Some(RotationComponent(a[1], a[2], a[3])), second.rotation>>,
                      !.cameras = <<Some(CameraComponent(UnitZ, UnitY, 7000)), second.camera>>,
                      !.flying_cameras = {1}]
    /\ worldPre = world
    /\ ecsOp = "new"
    /\ ecsRuns = 0
    /\ tasks = <<>>

EcsStep(op, before, after) ==
    /\ ecsRuns < MaxEcsRuns
    /\ world' = after
    /\ worldPre' = before
    /\ ecsOp' = op
    /\ ecsRuns' = ecsRuns + 1
    /\ UNCHANGED <<camVars, sceneVars, engineVars, tasks>>

EcsRunFlyingCamera ==
    \E m \in ArgMovementInputs :
        LET w == [world EXCEPT !.movement_input = m]
        IN  EcsStep("FlyingCameraSystem", w, FlyingCameraSystem_run(w))

EcsRunIntegrator ==
    \E dt \in ArgDeltaTimes :
        LET w == [world EXCEPT !.delta_time = dt]
        IN  EcsStep("NewtonianExplicitIntegratorSystem", w, NewtonianExplicitIntegratorSystem_run(w))

EcsNext ==
    \/ EcsRunFlyingCamera
    \/ EcsRunIntegrator

SpecECS == EcsInit /\ [][EcsNext]_vars

(* C8: one integrator run adds velocity * delta_time to the position of
   every entity that has both a Position and a Velocity, with the velocity
   the entity holds when the integrator runs; velocities, all other
   components and entities lacking either component are unchanged. *)
C8_IntegratorLaw ==
    ecsOp = "NewtonianExplicitIntegratorSystem" =>
        /\ \A e \in world.entities :
              IF worldPre.positions[e] # None /\ worldPre.velocities[e] # None
              THEN \A i \in 1..3 :
                      world.positions[e][1][i] =
                          worldPre.positions[e][1][i]
                              + worldPre.velocities[e][1][i] * worldPre.delta_time
              ELSE world.positions[e] = worldPre.positions[e]
        /\ [world EXCEPT !.positions = worldPre.positions] = worldPre

C8_Witness ==
    /\ ecsOp = "NewtonianExplicitIntegratorSystem"
    /\ world.delta_time = 2
    /\ world.positions[1] = Some(<<6, 0, -10>>)
    /\ world.velocities[2] = None
    /\ world.positions[2] = worldPre.positions[2]

(* C9: one FlyingCameraSystem run with should_roll = false adds delta_yaw
   to yaw and delta_pitch to pitch and leaves roll; with should_roll = true
   it adds delta_yaw to roll and leaves yaw and pitch. *)
C9_RotationLaw ==
    ecsOp = "FlyingCameraSystem" =>
        \A e \in FlyingCameraJoin(worldPre) :
            LET before == worldPre.rotations[e][1]
                after == world.rotations[e][1]
                m == worldPre.movement_input
            IN  IF ~m.should_roll
                THEN /\ after.yaw = before.yaw + m.delta_yaw
                     /\ after.pitch = before.pitch + m.delta_pitch
                     /\ after.roll = before.roll
                ELSE /\ after.roll = before.roll + m.delta_yaw
                     /\ after.yaw = before.yaw
                     /\ after.pitch = before.pitch

C9_Witness ==
    /\ ecsOp = "FlyingCameraSystem"
    /\ world.movement_input.should_roll
    /\ world.movement_input.delta_yaw = 1
    /\ world.movement_input.delta_pitch = -1
    /\ 1 \in FlyingCameraJoin(worldPre)
    /\ world.rotations[1][1].roll = worldPre.rotations[1][1].roll + 1
    /\ world.rotations[1][1].pitch = worldPre.rotations[1][1].pitch

(* C33: a FlyingCameraSystem run changes only the Rotation and Velocity of
   entities that carry Rotation, Velocity, Camera and the FlyingCamera
   marker: no Position changes, no CameraComponent changes, and an entity
   without the marker (or without one of the components) keeps every
   component. *)
C33_FlyingCameraWritesOnlyMatched ==
    ecsOp = "FlyingCameraSystem" =>
        /\ world.positions = worldPre.positions
        /\ world.cameras = worldPre.cameras
        /\ \A e \in world.entities :
              ~(/\ e \in worldPre.flying_cameras
                /\ worldPre.rotations[e] # None
                /\ worldPre.velocities[e] # None
                /\ worldPre.cameras[e] # None)
                  => /\ world.rotations[e] = worldPre.rotations[e]
                     /\ world.velocities[e] = worldPre.velocities[e]
        /\ [world EXCEPT !.rotations = worldPre.rotations,
                         !.velocities = worldPre.velocities] = worldPre

(* the marked entity was turned and got a new velocity while a second
   entity with Rotation, Velocity and Camera but no marker stayed as it was *)
C33_Witness ==
    /\ ecsOp = "FlyingCameraSystem"
    /\ 2 \notin worldPre.flying_cameras
    /\ worldPre.rotations[2] # None /\ worldPre.velocities[2] # None
    /\ worldPre.cameras[2] # None /\ worldPre.positions[2] # None
    /\ world.movement_input.delta_yaw = 1
    /\ world.movement_input.forward /\ ~world.movement_input.backward
    /\ world.rotations[1] # worldPre.rotations[1]
    /\ world.velocities[1] # worldPre.velocities[1]
    /\ world.velocities[2] = Some(<<1, 0, -1>>)

(* +1 for the first flag alone, -1 for the second alone, 0 when they agree *)
AxisSign(plus, minus) == (IF plus THEN 1 ELSE 0) - (IF minus THEN 1 ELSE 0)

(* C10: after a FlyingCameraSystem run the velocity of a matched entity is
   (f*forward + r*right + u*up) * (2 if sprinting else 1), with the axes
   rotated by the entity's quaternion and right = up x forward; the
   velocity held before the run does not enter. *)
C10_VelocityLaw ==
    ecsOp = "FlyingCameraSystem" =>
        \A e \in FlyingCameraJoin(worldPre) :
            LET m == worldPre.movement_input
                q == world.rotations[e][1].quaternion
                forward == QuatMulVec(q, world.cameras[e][1].forward_axis)
                up == QuatMulVec(q, world.cameras[e][1].up_axis)
                right == Cross(up, forward)
                f == AxisSign(m.forward, m.backward)
                r == AxisSign(m.right, m.left)
                u == AxisSign(m.up, m.down)
                sum == VAdd(VAdd(VScale(forward, f), VScale(right, r)), VScale(up, u))
            IN  world.velocities[e] = Some(VScale(sum, IF m.sprinting THEN 2 ELSE 1))

C10_Witness ==
    /\ ecsOp = "FlyingCameraSystem"
    /\ 1 \in FlyingCameraJoin(worldPre)
    /\ worldPre.velocities[1] = Some(<<3, 0, 0>>)
    /\ worldPre.rotations[1][1].yaw = 1
    /\ LET m == world.movement_input
       IN  /\ m.forward /\ m.backward
           /\ m.right /\ ~m.left
           /\ m.up /\ ~m.down
           /\ m.sprinting /\ ~m.should_roll /\ m.delta_yaw = 0
    /\ world.velocities[1] = Some(<<0, 2, -2>>)

-----------------------------------------------------------------------------
(* SpecScene: a render scene to which camera nodes are added, whose active
   camera is chosen with set_active_camera, whose cameras are moved between
   frames, and which is rendered *)

MaxNodes == 2

SceneStep(op, h, ns, events) ==
    /\ nodes' = ns
    /\ log' = events
    /\ lastOp' = Event(op, h)
    /\ UNCHANGED <<camVars, ecsVars, engineVars>>

(* CameraRenderNode::add_new(camera, scene) *)
SceneAddCamera ==
    /\ Cardinality(DOMAIN nodes) < MaxNodes
    /\ \E position \in ArgPositions :
          \E added \in {RenderScene_add_node(nodes, scene_cameras, next_handle,
                  CameraRenderNode_new(
                      PerspectiveCamera_new(position, UnitZ, UnitZ, UnitY, 7000, 1, None, 1)))} :
              /\ SceneStep("add_node", added.handle, added.nodes, <<>>)
              /\ scene_cameras' = added.cameras
              /\ next_handle' = added.next_handle

SceneSetActiveCamera ==
    /\ \E h \in DOMAIN nodes :
          SceneStep("set_active_camera", h,
                    RenderScene_set_active_camera(nodes, scene_cameras, h), <<>>)
    /\ UNCHANGED <<scene_cameras, next_handle>>

(* CameraRenderNode::set_position on a node obtained with get_node_by_id *)
SceneSetPosition ==
    /\ \E h \in DOMAIN nodes, v \in ArgPositions :
          SceneStep("set_position", h,
                    [nodes EXCEPT ![h].camera = set_position(@, v)], <<>>)
    /\ UNCHANGED <<scene_cameras, next_handle>>

SceneRender ==
    /\ nodes # <<>>
    /\ \E order \in IterationOrders(nodes) :
          \E pass \in {RenderScene_render(nodes, order)} :
              SceneStep("render", 0, pass.nodes, pass.events)
    /\ UNCHANGED <<scene_cameras, next_handle>>

SceneInit == CamIdle /\ EcsIdle /\ SceneNew /\ EngineNew

SceneNext ==
    \/ SceneAddCamera
    \/ SceneSetActiveCamera
    \/ SceneSetPosition
    \/ SceneRender

SpecScene == SceneInit /\ [][SceneNext]_vars

ActiveNodes == {h \in DOMAIN nodes : nodes[h].is_active_camera}

Written(h) == \E i \in DOMAIN log : log[i] = Event("write_buffer", h)

Resolved(h) == \E i \in DOMAIN log : log[i] = Event("resolve_dirty_state", h)

(* C2: in one RenderScene.render pass a camera node's uniform buffer is
   written iff the node is active and its camera or the node was dirty when
   the pass began; a buffer that is not written keeps its content, so an
   inactive camera's buffer is never written. *)
C2_UploadGating ==
    [][lastOp'.ev = "render" =>
        \A h \in DOMAIN nodes :
            /\ Written(h)' <=>
                  (nodes[h].is_active_camera /\ (nodes[h].camera.dirty \/ nodes[h].dirty))
            /\ ~Written(h)' => nodes'[h].camera_buffer = nodes[h].camera_buffer]_vars

(* cameras A = 1 and B = 2 after the pass that followed a switch from A to
   B: A, moved while it was still active and then deactivated, was resolved
   without a write and keeps the buffer of its earlier frame; B's buffer was
   written *)
C2_Witness ==
    /\ lastOp.ev = "render"
    /\ DOMAIN nodes = {1, 2}
    /\ ActiveNodes = {2}
    /\ Resolved(1) /\ ~Written(1)
    /\ nodes[1].camera_buffer # IdentityBlock
    /\ nodes[1].camera_buffer # nodes[1].camera.camera_shader_state
    /\ Written(2)
    /\ nodes[2].camera_buffer = nodes[2].camera.camera_shader_state

(* C3: over add-node and set_active_camera operations (and frames and
   camera moves, which do not touch the flag) at most one camera node is
   active, and right after set_active_camera(h) node h is active and every
   other node of the camera list is inactive. *)
C3_ActiveCameraExclusive ==
    /\ Cardinality(ActiveNodes) <= 1
    /\ lastOp.ev = "set_active_camera" =>
          /\ nodes[lastOp.h].is_active_camera
          /\ \A i \in DOMAIN scene_cameras :
                scene_cameras[i] # lastOp.h => ~nodes[scene_cameras[i]].is_active_camera

(* the active camera was switched from 1, rendered from before, to 2 *)
C3_Witness ==
    /\ lastOp = Event("set_active_camera", 2)
    /\ DOMAIN nodes = {1, 2}
    /\ nodes[1].dirty
    /\ nodes[1].camera_buffer # IdentityBlock
    /\ ActiveNodes = {2}

(* the handles of the nodes a pass recorded, in the order of recording *)
Visits(events) ==
    LET recorded == SelectSeq(events, LAMBDA e : e.ev = "set_bind_group")
    IN  [i \in DOMAIN recorded |-> recorded[i].h]

(* C22: RenderScene.render visits the nodes in the order in which they were
   added, resolves a node first iff it is dirty and then records it, and
   never records a node that is still dirty. *)
C22_RenderInInsertionOrder ==
    [][lastOp'.ev = "render" =>
          /\ Visits(log') = scene_cameras
          /\ \A h \in DOMAIN nodes :
                /\ Resolved(h)' <=> is_dirty(nodes[h])
                /\ ~is_dirty(nodes'[h])
                /\ \A i, j \in DOMAIN log' :
                      (log'[i] = Event("resolve_dirty_state", h)
                          /\ log'[j] = Event("set_bind_group", h)) => i < j]_vars

-----------------------------------------------------------------------------
(* ECSWorld and the CameraEntity bridge.  An ECSWorld value is the record
   [world, ecs_entities, camera_handles, next_entiy_handle]; a scene value is
   the record [nodes, cameras, next_handle]. *)

ECSWorld_new ==
    [world |-> World_new, ecs_entities |-> <<>>, camera_handles |-> <<>>,
     next_entiy_handle |-> 1]

RenderScene_new == [nodes |-> <<>>, cameras |-> <<>>, next_handle |-> 1]

(* world.create_entity().with(..)...build() of add_flying: the entity gets
   the next free index and all five components *)
create_entity(w, position, rotation, camera) ==
    LET e == Cardinality(w.entities) + 1
    IN  [w EXCEPT !.entities = @ \cup {e},
                  !.positions = Append(@, Some(position)),
                  !.velocities = Append(@, Some(ZERO)),
                  !.rotations = Append(@, Some(rotation)),
                  !.cameras = Append(@, Some(camera)),
                  !.flying_cameras = @ \cup {e}]

ECSWorld_add_entity_lists_every_entity(ecs, entity, is_camera_entity) ==
    [ecs EXCEPT
        !.camera_handles = Append(@, ecs.next_entiy_handle),
        !.ecs_entities = [h \in DOMAIN @ \cup {ecs.next_entiy_handle} |->
                             IF h = ecs.next_entiy_handle THEN entity ELSE @[h]],
        !.next_entiy_handle = @ + 1]

(* ECSWorld::add_entity::<T>, is_camera_entity being
   TypeId::of::<T>() == TypeId::of::<CameraEntity>(); the handle returned is
   the next_entiy_handle of before *)
ECSWorld_add_entity(ecs, entity, is_camera_entity) ==
    [ecs EXCEPT
        !.camera_handles = IF is_camera_entity THEN Append(@, ecs.next_entiy_handle) ELSE @,
        !.ecs_entities = [h \in DOMAIN @ \cup {ecs.next_entiy_handle} |->
                             IF h = ecs.next_entiy_handle THEN entity ELSE @[h]],
        !.next_entiy_handle = @ + 1]

(* ECSWorld::get_primary_camera *)
get_primary_camera(camera_handles_) ==
    IF camera_handles_ = <<>> THEN None ELSE Some(camera_handles_[1])

(* Quat::from_axis_angle for an axis along a coordinate axis and an angle in
   quarter turns *)
from_axis_angle(axis, angle) ==
    CASE axis = UnitX -> from_rotation_x(angle)
      [] axis = VNeg(UnitX) -> from_rotation_x(-angle)
      [] axis = UnitY -> from_rotation_y(angle)
      [] axis = VNeg(UnitY) -> from_rotation_y(-angle)
      [] axis = UnitZ -> from_rotation_z(angle)
      [] axis = VNeg(UnitZ) -> from_rotation_z(-angle)

(* Quat::to_euler(EulerRot::YXZ): the angles (y, x, z), x within a quarter
   turn of zero, of which the rotation is the product Ry * Rx * Rz *)
to_euler_YXZ(q) ==
    CHOOSE a \in (-1..2) \X (-1..1) \X (-1..2) :
        QuatMul(QuatMul(from_rotation_y(a[1]), from_rotation_x(a[2])),
                from_rotation_z(a[3])) = q

add_flying_wraps_next_handle(ecs, scene, position, direction, forward_axis, up_axis, fov, near, far, aspect) ==
    LET dot == Dot(direction, forward_axis)
        rotation == IF dot = 1 THEN QuatIDENTITY
                    ELSE IF dot = -1 THEN from_axis_angle(up_axis, 2)
                    ELSE from_axis_angle(Cross(forward_axis, direction), 1)
        euler == to_euler_YXZ(rotation)
        w == create_entity(ecs.world, position,
                           [quaternion |-> rotation,
                            yaw |-> euler[1], pitch |-> euler[2], roll |-> euler[3]],
                           CameraComponent(forward_axis, up_axis, fov))
        camera == PerspectiveCamera_new(position, direction, forward_axis, up_axis,
                                        fov, near, far, aspect)
        added == RenderScene_add_node(scene.nodes, scene.cameras, scene.next_handle,
                                      CameraRenderNode_new(camera))
        camera_entity == [camera_render_node_handle |-> added.next_handle,
                          specs_entity_handle |-> Cardinality(ecs.world.entities) + 1]
    IN  [ecs |-> ECSWorld_add_entity([ecs EXCEPT !.world = w], camera_entity, TRUE),
         scene |-> [nodes |-> added.nodes, cameras |-> added.cameras,
                    next_handle |-> added.next_handle]]

(* CameraEntity::add_flying *)
add_flying(ecs, scene, position, direction, forward_axis, up_axis, fov, near, far, aspect) ==
    LET dot == Dot(direction, forward_axis)
        rotation == IF dot = 1 THEN QuatIDENTITY
                    ELSE IF dot = -1 THEN from_axis_angle(up_axis, 2)
                    ELSE from_axis_angle(Cross(forward_axis, direction), 1)
        euler == to_euler_YXZ(rotation)
        w == create_entity(ecs.world, position,
                           [quaternion |-> rotation,
                            yaw |-> euler[1], pitch |-> euler[2], roll |-> euler[3]],
                           CameraComponent(forward_axis, up_axis, fov))
        camera == PerspectiveCamera_new(position, direction, forward_axis, up_axis,
                                        fov, near, far, aspect)
        added == RenderScene_add_node(scene.nodes, scene.cameras, scene.next_handle,
                                      CameraRenderNode_new(camera))
        camera_entity == [camera_render_node_handle |-> added.handle,
                          specs_entity_handle |-> Cardinality(ecs.world.entities) + 1]
    IN  [ecs |-> ECSWorld_add_entity([ecs EXCEPT !.world = w], camera_entity, TRUE),
         scene |-> [nodes |-> added.nodes, cameras |-> added.cameras,
                    next_handle |-> added.next_handle]]

(* CameraEntity::update_render_node: the entity's node after the bridge *)
update_render_node(entity, w, n) ==
    LET position == w.positions[entity.specs_entity_handle][1]
        rotation == w.rotations[entity.specs_entity_handle][1].quaternion
        camera_data == w.cameras[entity.specs_entity_handle][1]
    IN  [n EXCEPT !.camera =
            set_fov(set_rotation(set_position(@, position), rotation), camera_data.fov)]

dispatcher_without_dependency ==
    <<[name |-> "flying_camera_system", system |-> "FlyingCameraSystem", dep |-> {}],
      [name |-> "position_integrator", system |-> "NewtonianExplicitIntegratorSystem",
       dep |-> {}]>>

(* the dispatcher built in ECSWorld::new: the systems in the order of the
   with() calls, each with its name and the names it depends on *)
dispatcher ==
    <<[name |-> "flying_camera_system", system |-> "FlyingCameraSystem", dep |-> {}],
      [name |-> "position_integrator", system |-> "NewtonianExplicitIntegratorSystem",
       dep |-> {"flying_camera_system"}]>>

(* Dispatcher::dispatch runs a system once every system it depends on has
   finished; systems not ordered by a dependency may run in either order.
   The orders of the systems of d that one dispatch can take. *)
DispatchOrders(d) ==
    {o \in IterationOrders(d) :
        \A i, j \in DOMAIN d : d[o[j]].name \in d[o[i]].dep => j < i}

(* System::run of the named system *)
run_system(system, w) ==
    IF system = "FlyingCameraSystem" THEN FlyingCameraSystem_run(w)
    ELSE NewtonianExplicitIntegratorSystem_run(w)

(* dispatcher.dispatch(&world), the systems run in the given order *)
RECURSIVE dispatch(_, _, _)
dispatch(d, order, w) ==
    IF order = <<>> THEN w
    ELSE dispatch(d, Tail(order), run_system(d[Head(order)].system, w))

(* "Update scene" of ECSWorld::update: update_render_node of every entity of
   ecs_entities, in the order in which the pass visits the map *)
RECURSIVE bridge(_, _, _, _)
bridge(entities, order, w, ns) ==
    IF order = <<>> THEN ns
    ELSE LET entity == entities[Head(order)]
         IN  bridge(entities, Tail(order), w,
                    [ns EXCEPT ![entity.camera_render_node_handle] =
                        update_render_node(entity, w, @)])

ECSWorld_update_bridges_first(w, entities, ns, delta_time, input, dispatch_order, bridge_order) ==
    LET set == [w EXCEPT !.delta_time = delta_time, !.movement_input = input]
    IN  [world |-> dispatch(dispatcher, dispatch_order, set),
         nodes |-> bridge(entities, bridge_order, set, ns),
         events |-> [i \in DOMAIN bridge_order |->
                        Event("update_render_node", bridge_order[i])]
                    \o [i \in DOMAIN dispatch_order |->
                        Event(dispatcher[dispatch_order[i]].system, 0)]]

(* ECSWorld::update: the world and the nodes afterwards and the steps taken *)
ECSWorld_update(w, entities, ns, delta_time, input, dispatch_order, bridge_order) ==
    LET set == [w EXCEPT !.delta_time = delta_time, !.movement_input = input]
        after == dispatch(dispatcher, dispatch_order, set)
    IN  [world |-> after,
         nodes |-> bridge(entities, bridge_order, after, ns),
         events |-> [i \in DOMAIN dispatch_order |->
                        Event(dispatcher[dispatch_order[i]].system, 0)]
                    \o [i \in DOMAIN bridge_order |->
                        Event("update_render_node", bridge_order[i])]]

-----------------------------------------------------------------------------
(* InputHandler and EngineInstance.  A keyboard is a function from the keys
   that were reported to their last ElementState.  Aspect ratios are carried
   in hundredths (1.0 is 100). *)

(* KeyboardInputHandler::is_key_pressed *)
is_key_pressed(keyboard, key) == key \in DOMAIN keyboard /\ keyboard[key] = "Pressed"

(* InputHandler::set_key_pressed *)
set_key_pressed(handlers, device_id, key, pressed) ==
    LET keyboard == IF device_id \in DOMAIN handlers THEN handlers[device_id] ELSE <<>>
        updated == [k \in DOMAIN keyboard \cup {key} |->
                       IF k = key THEN pressed ELSE keyboard[k]]
    IN  [d \in DOMAIN handlers \cup {device_id} |->
            IF d = device_id THEN updated ELSE handlers[d]]

(* InputHandler::get_primary_keyboard: values_mut().next() of a HashMap, so
   any of the keyboards; the set of results it can give *)
get_primary_keyboard(handlers) ==
    IF DOMAIN handlers = {} THEN {None}
    ELSE {Some(handlers[d]) : d \in DOMAIN handlers}

ViewportRegion_ZERO == [x |-> 0, y |-> 0, width |-> 0, height |-> 0]

(* EngineCoreState::get_render_node_handle_by_ecs_handle *)
get_render_node_handle_by_ecs_handle(entities, handle) ==
    IF handle \in DOMAIN entities
    THEN Some(entities[handle].camera_render_node_handle)
    ELSE None

pull_keyboard_swaps_left_right(input, keyboard) ==
    IF keyboard = None THEN input
    ELSE [input EXCEPT !.forward = is_key_pressed(keyboard[1], "W"),
                       !.backward = is_key_pressed(keyboard[1], "S"),
                       !.left = is_key_pressed(keyboard[1], "D"),
                       !.right = is_key_pressed(keyboard[1], "A"),
                       !.up = is_key_pressed(keyboard[1], "Space"),
                       !.down = is_key_pressed(keyboard[1], "LShift")]

(* "Input to movement_input" of pre_render, keyboard being what
   get_primary_keyboard gave *)
pull_keyboard(input, keyboard) ==
    IF keyboard = None THEN input
    ELSE [input EXCEPT !.forward = is_key_pressed(keyboard[1], "W"),
                       !.backward = is_key_pressed(keyboard[1], "S"),
                       !.left = is_key_pressed(keyboard[1], "A"),
                       !.right = is_key_pressed(keyboard[1], "D"),
                       !.up = is_key_pressed(keyboard[1], "Space"),
                       !.down = is_key_pressed(keyboard[1], "LShift")]

(* EngineInstance::pre_render for the handle of an existing entity: the
   nodes, world and movement input afterwards and the steps taken *)
pre_render(ns, cams, w, entities, input, keyboard, delta_time, render_camera_ecs_handle, dispatch_order, bridge_order) ==
    LET render_camera_node_handle ==
            get_render_node_handle_by_ecs_handle(entities, render_camera_ecs_handle)[1]
        activated == RenderScene_set_active_camera(ns, cams, render_camera_node_handle)
        pulled == pull_keyboard(input, keyboard)
        updated == ECSWorld_update(w, entities, activated, delta_time, pulled,
                                   dispatch_order, bridge_order)
    IN  [nodes |-> updated.nodes, world |-> updated.world,
         movement_input |-> new_frame(pulled),
         events |-> <<Event("set_active_camera", render_camera_node_handle),
                      Event("get_primary_keyboard", 0)>>
                    \o updated.events \o <<Event("new_frame", 0)>>]

render_returns_on_zero_only(viewport_region, is_started) ==
    viewport_region = ViewportRegion_ZERO

(* the early return of EngineInstance::render *)
render_returns(viewport_region, is_started) ==
    viewport_region = ViewportRegion_ZERO \/ ~is_started

(* the early return of EngineInstance::resize *)
resize_returns(viewport_region, is_started) ==
    viewport_region = ViewportRegion_ZERO \/ ~is_started

(* EngineInstance::resize past its early return: the nodes afterwards *)
resize(ns, entities, cameras, viewport_region) ==
    LET camera_nodes == {entities[cameras[i]].camera_render_node_handle : i \in DOMAIN cameras}
    IN  [h \in DOMAIN ns |->
            IF h \in camera_nodes
            THEN [ns[h] EXCEPT !.camera =
                    set_aspect(@, (viewport_region.width * 100) \div viewport_region.height)]
            ELSE ns[h]]

(* EngineInstance::handle_mouse_button_event *)
handle_mouse_button_event(input, mouse_button, button_state) ==
    IF button_state = "Pressed" /\ mouse_button = "Middle"
    THEN [input EXCEPT !.should_roll = TRUE]
    ELSE IF button_state = "Released" /\ mouse_button = "Middle"
    THEN [input EXCEPT !.should_roll = FALSE]
    ELSE input

handle_mouse_motion_overwrites(input, mouse_delta) ==
    [input EXCEPT !.delta_yaw = mouse_delta[1] \div 1000,
                  !.delta_pitch = mouse_delta[2] \div 1000]

(* EngineInstance::handle_mouse_motion; the angle unit of the model stands
   for the radian, and mouse_delta is given in thousandths of it *)
handle_mouse_motion(input, mouse_delta) ==
    [input EXCEPT !.delta_yaw = @ + mouse_delta[1] \div 1000,
                  !.delta_pitch = @ + mouse_delta[2] \div 1000]

-----------------------------------------------------------------------------
(* The calls of the host into EngineInstance, as actions.  Each leaves
   hostCalls to the specification that uses it. *)

EngineStep(op, h, events) ==
    /\ log' = events
    /\ lastOp' = Event(op, h)
    /\ UNCHANGED <<camVars, worldPre, ecsOp, ecsRuns, tasks>>

(* a call that returns without having done anything *)
Returned(op) ==
    /\ EngineStep(op, 0, <<>>)
    /\ UNCHANGED <<world, nodes, scene_cameras, next_handle, started, ecs_entities,
                   camera_handles, next_entiy_handle, instance_movement_input,
                   keyboard_input_handlers, panicked>>

(* a call that panics: unwrap() of a None *)
Panics(op) ==
    /\ panicked' = TRUE
    /\ EngineStep(op, 0, <<>>)
    /\ UNCHANGED <<world, nodes, scene_cameras, next_handle, started, ecs_entities,
                   camera_handles, next_entiy_handle, instance_movement_input,
                   keyboard_input_handlers>>

Start_resets_input ==
    /\ ~panicked
    /\ ~started
    /\ \E made \in {add_flying(ECSWorld_new, RenderScene_new, <<0, 0, -10>>, UnitZ,
                               UnitZ, UnitY, 7000, 1, None, 100)} :
           /\ started' = TRUE
           /\ world' = made.ecs.world
           /\ ecs_entities' = made.ecs.ecs_entities
           /\ camera_handles' = made.ecs.camera_handles
           /\ next_entiy_handle' = made.ecs.next_entiy_handle
           /\ nodes' = made.scene.nodes
           /\ scene_cameras' = made.scene.cameras
           /\ next_handle' = made.scene.next_handle
           /\ keyboard_input_handlers' = <<>>
           /\ EngineStep("start", 0, <<>>)
    /\ instance_movement_input' = MovementInput_new
    /\ UNCHANGED <<panicked, host>>

(* EngineInstance::start *)
Start ==
    /\ ~panicked
    /\ ~started
    /\ \E made \in {add_flying(ECSWorld_new, RenderScene_new, <<0, 0, -10>>, UnitZ,
                               UnitZ, UnitY, 7000, 1, None, 100)} :
           /\ started' = TRUE
           /\ world' = made.ecs.world
           /\ ecs_entities' = made.ecs.ecs_entities
           /\ camera_handles' = made.ecs.camera_handles
           /\ next_entiy_handle' = made.ecs.next_entiy_handle
           /\ nodes' = made.scene.nodes
           /\ scene_cameras' = made.scene.cameras
           /\ next_handle' = made.scene.next_handle
           /\ keyboard_input_handlers' = <<>>
           /\ EngineStep("start", 0, <<>>)
    /\ UNCHANGED <<instance_movement_input, panicked, host>>

(* EngineInstance::render.  bridge_orders are the orders of the pass over
   ecs_entities that are followed up: the pass can take any order, and the
   order shows in the log only, each entity writing the node of its own
   handle. *)
Render(viewport_region, render_camera_handle, delta_time, bridge_orders) ==
    /\ ~panicked
    /\ IF render_returns(viewport_region, started)
       THEN /\ Returned("render_returned")
            /\ host' = [host EXCEPT !.viewport = viewport_region]
       ELSE IF ~started
               \/ get_render_node_handle_by_ecs_handle(ecs_entities, render_camera_handle) = None
       THEN /\ Panics("render_panicked")
            /\ host' = [host EXCEPT !.viewport = viewport_region]
       ELSE \E keyboard \in get_primary_keyboard(keyboard_input_handlers),
               dispatch_order \in DispatchOrders(dispatcher),
               bridge_order \in bridge_orders :
            \E pre \in {pre_render(nodes, scene_cameras, world, ecs_entities,
                                    instance_movement_input, keyboard, delta_time,
                                    render_camera_handle, dispatch_order, bridge_order)} :
               /\ world' = pre.world
               /\ instance_movement_input' = pre.movement_input
               /\ host' = [host EXCEPT !.viewport = viewport_region, !.motions = <<>>]
               /\ UNCHANGED <<scene_cameras, next_handle, started, ecs_entities,
                              camera_handles, next_entiy_handle,
                              keyboard_input_handlers, panicked>>
               /\ \E order \in IterationOrders(pre.nodes) :
                  \E pass \in {RenderScene_render(pre.nodes, order)} :
                     /\ nodes' = pass.nodes
                     /\ EngineStep("render", render_camera_handle,
                                   pre.events \o <<Event("set_pipeline", 0)>>
                                       \o pass.events \o <<Event("execute_bundles", 0)>>)

(* EngineInstance::resize *)
Resize(viewport_region) ==
    /\ ~panicked
    /\ host' = [host EXCEPT !.viewport = viewport_region]
    /\ IF resize_returns(viewport_region, started)
       THEN Returned("resize_returned")
       ELSE /\ nodes' = resize(nodes, ecs_entities, camera_handles, viewport_region)
            /\ EngineStep("resize", 0, <<>>)
            /\ UNCHANGED <<world, scene_cameras, next_handle, started, ecs_entities,
                           camera_handles, next_entiy_handle, instance_movement_input,
                           keyboard_input_handlers, panicked>>

(* EngineInstance::handle_key_state *)
HandleKeyState(device_id, key_code, key_state) ==
    /\ ~panicked
    /\ host' = [host EXCEPT !.keys =
                   [k \in DOMAIN @ \cup {<<device_id, key_code>>} |->
                       IF k = <<device_id, key_code>> THEN key_state ELSE @[k]],
                            !.first = IF @ = None THEN Some(device_id) ELSE @]
    /\ IF ~started
       THEN Panics("handle_key_state_panicked")
       ELSE /\ keyboard_input_handlers' =
                  set_key_pressed(keyboard_input_handlers, device_id, key_code, key_state)
            /\ EngineStep("handle_key_state", 0, <<>>)
            /\ UNCHANGED <<world, nodes, scene_cameras, next_handle, started, ecs_entities,
                           camera_handles, next_entiy_handle, instance_movement_input,
                           panicked>>

(* EngineInstance::handle_mouse_button_event *)
HandleMouseButtonEvent(mouse_button, button_state) ==
    /\ ~panicked
    /\ host' = [host EXCEPT !.middle = IF mouse_button = "Middle" THEN button_state ELSE @]
    /\ instance_movement_input' =
          handle_mouse_button_event(instance_movement_input, mouse_button, button_state)
    /\ EngineStep("handle_mouse_button_event", 0, <<>>)
    /\ UNCHANGED <<world, nodes, scene_cameras, next_handle, started, ecs_entities,
                   camera_handles, next_entiy_handle, keyboard_input_handlers, panicked>>

(* EngineInstance::handle_mouse_motion *)
HandleMouseMotion(mouse_delta) ==
    /\ ~panicked
    /\ host' = [host EXCEPT !.motions = Append(@, mouse_delta)]
    /\ instance_movement_input' = handle_mouse_motion(instance_movement_input, mouse_delta)
    /\ EngineStep("handle_mouse_motion", 0, <<>>)
    /\ UNCHANGED <<world, nodes, scene_cameras, next_handle, started, ecs_entities,
                   camera_handles, next_entiy_handle, keyboard_input_handlers, panicked>>

(* EngineInstance::handle_mouse_wheel: an empty body *)
HandleMouseWheel ==
    /\ ~panicked
    /\ Returned("handle_mouse_wheel")
    /\ UNCHANGED host

-----------------------------------------------------------------------------
(* Spec: the engine.  The host starts it, reports keys and resizes, and asks
   for frames; cameras beyond the one start() creates are added with
   CameraEntity::add_flying. *)

MaxTravel == 1

ArgKeys == {"W"}

ArgFrameTimes == {1}

ArgViewports ==
    {ViewportRegion_ZERO, [x |-> 0, y |-> 0, width |-> 2, height |-> 1]}

EngineStart == Start /\ UNCHANGED hostCalls

(* CameraEntity::add_flying on the world and scene of a started engine *)
EngineAddFlying ==
    /\ started
    /\ Len(camera_handles) < MaxNodes
    /\ \E made \in {add_flying([world |-> world, ecs_entities |-> ecs_entities,
                                camera_handles |-> camera_handles,
                                next_entiy_handle |-> next_entiy_handle],
                               [nodes |-> nodes, cameras |-> scene_cameras,
                                next_handle |-> next_handle],
                               <<0, 0, -10>>, UnitZ, UnitZ, UnitY, 7000, 1, None, 100)} :
           /\ world' = made.ecs.world
           /\ ecs_entities' = made.ecs.ecs_entities
           /\ camera_handles' = made.ecs.camera_handles
           /\ next_entiy_handle' = made.ecs.next_entiy_handle
           /\ nodes' = made.scene.nodes
           /\ scene_cameras' = made.scene.cameras
           /\ next_handle' = made.scene.next_handle
           /\ EngineStep("add_flying", next_entiy_handle, <<>>)
    /\ UNCHANGED <<started, instance_movement_input, keyboard_input_handlers, panicked,
                   host, hostCalls>>

(* every camera entity within MaxTravel half units of where it was created *)
WithinTravel(w) ==
    \A e \in w.entities :
        \A i \in 1..3 :
            LET d == w.positions[e][1][i] - <<0, 0, -10>>[i]
            IN  d <= MaxTravel /\ -d <= MaxTravel

(* EngineInstance::render, for the handle of an existing camera entity *)
EngineRender ==
    \E viewport_region \in ArgViewports, delta_time \in ArgFrameTimes,
       render_camera_handle \in (IF started THEN DOMAIN ecs_entities ELSE {1}) :
        /\ Render(viewport_region, render_camera_handle, delta_time, {camera_handles})
        /\ WithinTravel(world')
        /\ UNCHANGED hostCalls

EngineResize ==
    \E viewport_region \in ArgViewports : Resize(viewport_region) /\ UNCHANGED hostCalls

(* EngineInstance::handle_key_state on a started engine *)
EngineHandleKeyState ==
    /\ started
    /\ \E key_code \in ArgKeys, key_state \in {"Pressed", "Released"} :
          HandleKeyState(1, key_code, key_state)
    /\ UNCHANGED hostCalls

Init == CamIdle /\ EcsIdle /\ SceneNew /\ EngineNew

Next ==
    \/ EngineStart
    \/ EngineAddFlying
    \/ EngineRender
    \/ EngineResize
    \/ EngineHandleKeyState

Spec == Init /\ [][Next]_vars

(* C1: in every frame EngineInstance.render records on a started engine,
   with a non-empty viewport and the handle of an existing camera entity,
   the node of that camera is the active one and, when the triangle bundle
   is executed at the end of the pass, the uniform buffer of every active
   camera node holds the view-projection block of the camera's fields as the
   bridge left them. *)
C1_ActiveBufferFresh ==
    lastOp.ev = "render" =>
        /\ log[Len(log)] = Event("execute_bundles", 0)
        /\ nodes[ecs_entities[lastOp.h].camera_render_node_handle].is_active_camera
        /\ \A h \in DOMAIN nodes :
              nodes[h].is_active_camera =>
                  nodes[h].camera_buffer = view_proj(nodes[h].camera)

(* the first frame after the active camera was switched from camera 1,
   drawn before, to camera 2, in which the cameras also moved *)
C1_Witness ==
    /\ lastOp = Event("render", 2)
    /\ DOMAIN nodes = {1, 2}
    /\ nodes[1].camera_buffer # IdentityBlock
    /\ nodes[1].camera_buffer # nodes[1].camera.camera_shader_state
    /\ nodes[2].camera.position # <<0, 0, -10>>
    /\ nodes[2].camera_buffer = view_proj(nodes[2].camera)

-----------------------------------------------------------------------------
(* SpecDispatch: ticks of the dispatcher on a world with one flying camera,
   which holds some velocity from before *)

ArgPriorVelocities == {ZERO, <<3, 0, 0>>, <<0, 0, -1>>}

ArgDispatchInputs ==
    {[MovementInput_new EXCEPT !.forward = f, !.backward = b, !.right = r,
                               !.sprinting = s, !.delta_yaw = y] :
        f \in BOOLEAN, b \in BOOLEAN, r \in BOOLEAN, s \in BOOLEAN, y \in {0, 1}}

DispatchInit ==
    /\ CamIdle
    /\ SceneNew
    /\ EngineNew
    /\ \E a \in ArgAngles, v \in ArgPriorVelocities :
          world = [create_entity(World_new, <<0, 0, -10>>,
                                 RotationComponent(a[1], a[2], a[3]),
                                 CameraComponent(UnitZ, UnitY, 7000))
                      EXCEPT !.velocities = <<Some(v)>>]
    /\ worldPre = world
    /\ ecsOp = "new"
    /\ ecsRuns = 0
    /\ tasks = <<>>

(* the resource writes and the dispatch of ECSWorld::update *)
EcsDispatch ==
    \E delta_time \in ArgDeltaTimes, input \in ArgDispatchInputs,
       order \in DispatchOrders(dispatcher) :
        LET w == [world EXCEPT !.delta_time = delta_time, !.movement_input = input]
        IN  EcsStep("dispatch", w, dispatch(dispatcher, order, w))

DispatchNext == EcsDispatch

SpecDispatch == DispatchInit /\ [][DispatchNext]_vars

(* C11: in every dispatch the integrator runs after FlyingCameraSystem has
   finished, so the position change of the tick uses the velocity computed
   from this tick's movement input, whatever velocity the entity held
   before; with forward only, half a second, identity rotation and forward
   axis (0,0,1) the position advances by (0,0,0.5), i.e. one half unit. *)
C11_IntegratorAfterFlyingCamera ==
    ecsOp = "dispatch" =>
        \A e \in FlyingCameraJoin(worldPre) \cap IntegratorJoin(worldPre) :
            LET input == worldPre.movement_input
                velocity == world.velocities[e][1]
                moved == [i \in 1..3 |-> world.positions[e][1][i] - worldPre.positions[e][1][i]]
            IN  /\ velocity = move_velocity(worldPre.velocities[e][1],
                                            world.rotations[e][1].quaternion,
                                            worldPre.cameras[e][1], input)
                /\ moved = VScale(velocity, worldPre.delta_time)
                /\ (/\ input.forward /\ ~input.backward /\ ~input.right /\ ~input.sprinting
                    /\ worldPre.delta_time = 1
                    /\ world.rotations[e][1].quaternion = QuatIDENTITY
                    /\ worldPre.cameras[e][1].forward_axis = UnitZ)
                   => moved = <<0, 0, 1>>

(* forward only for half a second on an entity that held velocity (3,0,0) *)
C11_Witness ==
    /\ ecsOp = "dispatch"
    /\ worldPre.velocities[1] = Some(<<3, 0, 0>>)
    /\ worldPre.movement_input = [MovementInput_new EXCEPT !.forward = TRUE]
    /\ worldPre.delta_time = 1
    /\ world.rotations[1][1].quaternion = QuatIDENTITY
    /\ world.positions[1] = Some(<<0, 0, -9>>)

-----------------------------------------------------------------------------
(* SpecFrame: frames of a started engine with one or more cameras, none of
   them moving, with every order of the pass over ecs_entities and of the
   pass over the scene's nodes *)

FrameRender ==
    \E viewport_region \in ArgViewports, render_camera_handle \in DOMAIN ecs_entities :
        /\ started
        /\ Render(viewport_region, render_camera_handle, 1, IterationOrders(ecs_entities))
        /\ UNCHANGED hostCalls

FrameNext ==
    \/ EngineStart
    \/ EngineAddFlying
    \/ FrameRender
    \/ EngineResize

SpecFrame == Init /\ [][FrameNext]_vars

(* the positions of the log that hold the event e *)
LogPositions(e) == {i \in DOMAIN log : log[i] = e}

(* C12: the log of every recorded frame is: select the active camera, pull
   the keyboard, FlyingCameraSystem, integrator, the bridge of every wrapped
   entity once each, new_frame, then (after set_pipeline) for every node of
   the scene its resolve, if any, followed by its recording, and last the
   triangle bundle; so no node is resolved or recorded before the bridge
   has finished. *)
C12_FrameOrder ==
    lastOp.ev = "render" =>
        LET k == Cardinality(DOMAIN ecs_entities)
            n == Len(log)
            scene_part == (7 + k)..(n - 1)
        IN  /\ n >= 7 + k
            /\ log[1] = Event("set_active_camera",
                              ecs_entities[lastOp.h].camera_render_node_handle)
            /\ log[2] = Event("get_primary_keyboard", 0)
            /\ log[3] = Event("FlyingCameraSystem", 0)
            /\ log[4] = Event("NewtonianExplicitIntegratorSystem", 0)
            /\ \A e \in DOMAIN ecs_entities :
                  /\ Cardinality(LogPositions(Event("update_render_node", e))) = 1
                  /\ LogPositions(Event("update_render_node", e)) \subseteq 5..(4 + k)
            /\ log[5 + k] = Event("new_frame", 0)
            /\ log[6 + k] = Event("set_pipeline", 0)
            /\ \A i \in scene_part :
                  log[i].ev \in {"resolve_dirty_state", "write_buffer", "set_bind_group"}
            /\ \A h \in DOMAIN nodes :
                  /\ Cardinality(LogPositions(Event("set_bind_group", h))) = 1
                  /\ Cardinality(LogPositions(Event("resolve_dirty_state", h))) <= 1
                  /\ \A i \in LogPositions(Event("resolve_dirty_state", h)) \cup
                              LogPositions(Event("write_buffer", h)) :
                        /\ i \in scene_part
                        /\ \A j \in LogPositions(Event("set_bind_group", h)) : i < j
            /\ log[n] = Event("execute_bundles", 0)

(* a frame of two cameras whose bridge visited entity 2 first and whose
   scene pass resolved and wrote the active camera *)
C12_Witness ==
    /\ lastOp = Event("render", 1)
    /\ DOMAIN ecs_entities = {1, 2}
    /\ log[5] = Event("update_render_node", 2)
    /\ LogPositions(Event("write_buffer", 1)) # {}
    /\ LogPositions(Event("resolve_dirty_state", 2)) # {}

(* C16: a resize with a non-empty viewport on a started engine gives every
   camera the aspect width / height, leaves its position, direction, field
   of view, near and far planes and active flag alone, and raises its dirty
   flag exactly when the aspect changed. *)
C16_ResizeSetsAspect ==
    [][lastOp'.ev = "resize" =>
          /\ DOMAIN nodes' = DOMAIN nodes
          /\ \A h \in DOMAIN nodes :
                LET c == nodes[h].camera
                    d == nodes'[h].camera
                IN  /\ d.aspect = (host'.viewport.width * 100) \div host'.viewport.height
                    /\ d.position = c.position
                    /\ d.direction = c.direction
                    /\ d.fov = c.fov
                    /\ d.near = c.near
                    /\ d.far = c.far
                    /\ nodes'[h].is_active_camera = nodes[h].is_active_camera
                    /\ d.dirty = (c.dirty \/ d.aspect # c.aspect)]_vars

(* a resize after which one camera that already had the aspect is still
   clean and another one is dirty *)
C16_Witness ==
    /\ lastOp.ev = "resize"
    /\ \E h, k \in DOMAIN nodes :
          /\ nodes[h].camera.aspect = 200
          /\ ~nodes[h].camera.dirty
          /\ nodes[k].camera.aspect = 200
          /\ nodes[k].camera.dirty

(* the positions in the log of the frame at which the buffer of node h was
   written *)
Writes(h) == {i \in DOMAIN log : log[i] = Event("write_buffer", h)}

(* C28: in one frame the uniform buffer of the active camera is written at
   most once, before the camera's bind group is recorded and before the
   triangle bundle is executed; no buffer is written after the draw. *)
C28_WriteOnceBeforeDraw ==
    lastOp.ev = "render" =>
        /\ \A h \in DOMAIN nodes :
              /\ Cardinality(Writes(h)) <= 1
              /\ \A i \in Writes(h), j \in DOMAIN log :
                    log[j] = Event("set_bind_group", h) => i < j
              /\ \A i \in Writes(h), j \in DOMAIN log :
                    log[j].ev = "execute_bundles" => i < j
        /\ \A h \in DOMAIN nodes : Writes(h) # {} => nodes[h].is_active_camera

(* a frame of two cameras in which the inactive camera 1 was recorded
   first and the buffer of the active camera 2 was written after that,
   before its own bind group *)
C28_Witness ==
    /\ lastOp = Event("render", 2)
    /\ DOMAIN nodes = {1, 2}
    /\ Writes(2) # {}
    /\ \E j \in DOMAIN log :
          /\ log[j] = Event("set_bind_group", 1)
          /\ \A i \in Writes(2) : j < i

-----------------------------------------------------------------------------
(* SpecHost: a host that makes up to MaxHostCalls calls into a new engine:
   start, frames (also before start, with an empty viewport, or for a handle
   no entity has), resizes, mouse events and events of one key *)

MaxHostCalls == 5

ArgHostViewports ==
    {ViewportRegion_ZERO,
     [x |-> 0, y |-> 0, width |-> 2, height |-> 1],
     [x |-> 1, y |-> 0, width |-> 0, height |-> 0]}

ArgHandles == {1, 2}

ArgMouseDeltas == {<<1000, 0>>, <<-2000, 1000>>}

ArgMouseButtons == {"Middle", "Left"}

(* one more call of the host *)
Counted ==
    /\ hostCalls < MaxHostCalls
    /\ hostCalls' = hostCalls + 1

HostStart == Counted /\ Start

HostRender ==
    \E viewport_region \in ArgHostViewports, render_camera_handle \in ArgHandles :
        /\ Counted
        /\ Render(viewport_region, render_camera_handle, 1, IterationOrders(ecs_entities))

HostResize == \E viewport_region \in ArgViewports : Counted /\ Resize(viewport_region)

HostMouseButton ==
    \E mouse_button \in ArgMouseButtons, button_state \in {"Pressed", "Released"} :
        Counted /\ HandleMouseButtonEvent(mouse_button, button_state)

HostMouseMotion == \E mouse_delta \in ArgMouseDeltas : Counted /\ HandleMouseMotion(mouse_delta)

HostMouseWheel == Counted /\ HandleMouseWheel

HostKeyState ==
    \E key_state \in {"Pressed", "Released"} : Counted /\ HandleKeyState(1, "W", key_state)

HostNext ==
    \/ HostStart
    \/ HostRender
    \/ HostResize
    \/ HostMouseButton
    \/ HostMouseMotion
    \/ HostMouseWheel
    \/ HostKeyState

SpecHost == Init /\ [][HostNext]_vars

(* the state of the engine proper: everything but the record of the call *)
engineState ==
    <<world, nodes, scene_cameras, next_handle, started, ecs_entities, camera_handles,
      next_entiy_handle, instance_movement_input, keyboard_input_handlers>>

(* C13: on an engine that was not started, render and resize return without
   failing and change nothing: no tick, no activation, and the pending
   delta_yaw, delta_pitch and should_roll stay as they were. *)
C13_UninitializedNoOp ==
    [][(~started /\ lastOp'.ev \in {"render", "render_returned", "render_panicked",
                                    "resize", "resize_returned"})
          => (~panicked' /\ UNCHANGED engineState)]_vars

(* a render with a non-empty viewport returned on an engine not started
   whose movement input holds mouse motion and roll mode *)
C13_Witness ==
    /\ ~started
    /\ lastOp.ev = "render_returned"
    /\ host.viewport.width = 2
    /\ instance_movement_input.delta_yaw # 0
    /\ instance_movement_input.should_roll

(* C14: start, render and resize never panic, whatever viewport and camera
   handle they are given. *)
C14_RenderNeverPanics == lastOp.ev # "render_panicked"

(* C15: render returns early whenever the viewport's width or height is 0,
   whatever its origin: a frame is recorded only for a viewport with both
   positive. *)
C15_EmptyViewportReturns ==
    lastOp.ev = "render" => (host.viewport.width # 0 /\ host.viewport.height # 0)

RECURSIVE SumDeltas(_, _)
(* the sum of component c of the deltas of motions, each divided by 1000 *)
SumDeltas(motions, c) ==
    IF motions = <<>> THEN 0
    ELSE Head(motions)[c] \div 1000 + SumDeltas(Tail(motions), c)

(* C17: the delta_yaw and delta_pitch a dispatch gets are the sums of
   dx/1000 and dy/1000 over the mouse motions since the dispatch before,
   and both accumulators are zero after pre_render; between dispatches the
   accumulators hold the sum of the motions not yet dispatched. *)
C17_MouseDeltaAccumulation ==
    [][/\ lastOp'.ev = "render" =>
            /\ world'.movement_input.delta_yaw = SumDeltas(host.motions, 1)
            /\ world'.movement_input.delta_pitch = SumDeltas(host.motions, 2)
            /\ instance_movement_input'.delta_yaw = 0
            /\ instance_movement_input'.delta_pitch = 0
       /\ instance_movement_input'.delta_yaw = SumDeltas(host'.motions, 1)
       /\ instance_movement_input'.delta_pitch = SumDeltas(host'.motions, 2)]_vars

(* a dispatch that got the sum of two motions, (1000,0) and (-2000,1000) *)
C17_Witness ==
    /\ lastOp.ev = "render"
    /\ world.movement_input.delta_yaw = -1
    /\ world.movement_input.delta_pitch = 1
    /\ instance_movement_input.delta_yaw = 0

(* C18: should_roll, in the engine and at every dispatch, is true iff the
   last middle-button event was Pressed (false when there was none); other
   buttons and new_frame leave it alone. *)
C18_RollFollowsMiddleButton ==
    /\ instance_movement_input.should_roll = (host.middle = "Pressed")
    /\ lastOp.ev = "render" => world.movement_input.should_roll = (host.middle = "Pressed")

(* the second frame in a row rendered while the middle button is held *)
C18_Witness ==
    /\ lastOp.ev = "render"
    /\ hostCalls = 4
    /\ host.middle = "Pressed"
    /\ world.movement_input.should_roll
    /\ world.rotations[1][1].roll = 0
    /\ instance_movement_input.should_roll

-----------------------------------------------------------------------------
(* SpecKeys: a host that makes up to MaxHostCalls calls: start, key events
   of two keyboards, and frames for the camera start() makes *)

ArgMovementKeys == {"W", "S", "A", "D", "Space", "LShift", "LControl"}

(* device and key of the key events: every movement key of keyboard 1, and
   W of a second keyboard *)
ArgKeyEvents == ({1} \X ArgMovementKeys) \cup {<<2, "W">>}

KeysStart == Counted /\ Start

KeysHandleKeyState ==
    \E ke \in ArgKeyEvents, key_state \in {"Pressed", "Released"} :
        Counted /\ HandleKeyState(ke[1], ke[2], key_state)

KeysRender ==
    /\ Counted
    /\ Render([x |-> 0, y |-> 0, width |-> 2, height |-> 1], 1, 1, {camera_handles})

KeysNext ==
    \/ KeysStart
    \/ KeysHandleKeyState
    \/ KeysRender

SpecKeys == Init /\ [][KeysNext]_vars

(* the keyboards the host reported a key of *)
Devices == {k[1] : k \in DOMAIN host.keys}

(* the last state the host reported for key of keyboard d is Pressed *)
HostPressed(d, key) == <<d, key>> \in DOMAIN host.keys /\ host.keys[<<d, key>>] = "Pressed"

(* C19: the six directional flags a dispatch gets are the primary
   keyboard's states of W, S, A, D, Space and Left-Shift, re-read every
   frame; with no keyboard at all the six are false. *)
C19_FlagsFollowKeyboard ==
    lastOp.ev = "render" =>
        LET m == world.movement_input
        IN  IF Devices = {}
            THEN ~(m.forward \/ m.backward \/ m.left \/ m.right \/ m.up \/ m.down)
            ELSE \E d \in Devices :
                    /\ m.forward = HostPressed(d, "W")
                    /\ m.backward = HostPressed(d, "S")
                    /\ m.left = HostPressed(d, "A")
                    /\ m.right = HostPressed(d, "D")
                    /\ m.up = HostPressed(d, "Space")
                    /\ m.down = HostPressed(d, "LShift")

(* the second frame in a row with W held: the flag was true in both, the
   camera moved twice *)
C19_Witness ==
    /\ lastOp.ev = "render"
    /\ hostCalls = 4
    /\ Devices = {1}
    /\ world.movement_input.forward
    /\ world.positions[1] = Some(<<0, 0, -8>>)

(* C20: when Left-Ctrl is pressed at pre_render, the dispatch gets
   sprinting = true. *)
C20_LeftCtrlSprints ==
    (lastOp.ev = "render" /\ Devices # {} /\ \A d \in Devices : HostPressed(d, "LControl"))
        => world.movement_input.sprinting

(* C21: get_primary_keyboard returns the keyboard of the device that
   reported the first key event, whatever further devices reported keys
   later, and nothing when no device reported a key. *)
C21_PrimaryIsFirstDevice ==
    ~panicked =>
        get_primary_keyboard(keyboard_input_handlers) =
            {IF host.first = None THEN None
             ELSE Some(keyboard_input_handlers[host.first[1]])}

-----------------------------------------------------------------------------
(* The glTF camera probe of RenderScene (scene.rs).  A document is the
   sequence of its nodes; a node has a translation, a rotation and children,
   and a child has a camera or none.  Bytes are either no document or the
   document they encode. *)

(* f32::to_degrees on a number carried in hundredths *)
to_degrees(x) == (x * 113 * 180) \div 355

(* RenderScene::add_node(node_id, node): HashMap::insert under the caller's id *)
add_node(ns, node_id, node) ==
    [h \in DOMAIN ns \cup {node_id} |-> IF h = node_id THEN node ELSE ns[h]]

RECURSIVE parse_gltf(_, _, _)
(* the loop of RenderScene::parse_gltf over the nodes left, ns and events
   being the scene's nodes and the add_node calls so far *)
parse_gltf(gltf_nodes, ns, events) ==
    IF gltf_nodes = <<>> THEN [result |-> "Ok", nodes |-> ns, events |-> events]
    ELSE LET gltf_node == Head(gltf_nodes)
             node_id == Cardinality(DOMAIN ns)
             children == gltf_node.children
         IN  IF Len(children) = 1 /\ children[1].camera # None
             THEN LET gltf_camera == children[1].camera[1]
                      up_axis == <<0, 1, 0>>
                      camera == [position |-> gltf_node.translation,
                                 direction |-> VNeg(QuatMulVec(gltf_node.rotation, up_axis)),
                                 up_axis |-> up_axis,
                                 fov |-> to_degrees(gltf_camera.yfov),
                                 near |-> gltf_camera.znear,
                                 far |-> gltf_camera.zfar,
                                 aspect |-> 100]
                  IN  IF gltf_camera.projection = "Perspective"
                      THEN parse_gltf(Tail(gltf_nodes), add_node(ns, node_id, camera),
                                      Append(events, Event("add_node", node_id)))
                      ELSE [result |-> "panic", nodes |-> ns, events |-> events]
             ELSE parse_gltf(Tail(gltf_nodes), ns, events)

(* RenderScene::load_gltf *)
load_gltf(gltf_bytes) ==
    IF gltf_bytes.valid THEN parse_gltf(gltf_bytes.nodes, <<>>, <<>>)
    ELSE [result |-> "Err", nodes |-> <<>>, events |-> <<>>]

-----------------------------------------------------------------------------
(* SpecGltf: the host loads one document of up to MaxGltfNodes nodes *)

MaxGltfNodes == 2

ArgGltfCamera(projection) ==
    Some([projection |-> projection, yfov |-> 122, znear |-> 1, zfar |-> 10])

ArgGltfChildren ==
    {<<>>,
     <<[camera |-> None]>>,
     <<[camera |-> ArgGltfCamera("Perspective")]>>,
     <<[camera |-> ArgGltfCamera("Orthographic")]>>,
     <<[camera |-> ArgGltfCamera("Perspective")], [camera |-> None]>>}

ArgGltfNodes ==
    {[translation |-> t[1], rotation |-> t[2], children |-> children] :
        t \in {<<ZERO, QuatIDENTITY>>, <<UnitX, from_rotation_x(1)>>},
        children \in ArgGltfChildren}

ArgGltfBytes ==
    {NoBytes} \cup
    {[valid |-> TRUE, nodes |-> gltf_nodes] :
        gltf_nodes \in UNION {[1..n -> ArgGltfNodes] : n \in 0..MaxGltfNodes}}

GltfInit ==
    /\ CamIdle
    /\ EcsIdle
    /\ SceneNew
    /\ \E gltf_bytes \in ArgGltfBytes : EngineNewWith(gltf_bytes)

GltfLoad ==
    /\ lastOp.ev = "new"
    /\ \E loaded \in {load_gltf(host.gltf_bytes)} :
          IF loaded.result = "panic" THEN Panics("load_gltf_panicked")
          ELSE IF loaded.result = "Err" THEN Returned("load_gltf_err")
          ELSE /\ nodes' = loaded.nodes
               /\ EngineStep("load_gltf", 0, loaded.events)
               /\ UNCHANGED <<world, scene_cameras, next_handle, started, ecs_entities,
                              camera_handles, next_entiy_handle, instance_movement_input,
                              keyboard_input_handlers, panicked>>
    /\ UNCHANGED <<host, hostCalls>>

GltfNext == GltfLoad

SpecGltf == GltfInit /\ [][GltfNext]_vars

(* C23: the scene allocates the handles: the first add-node on a new scene
   gets handle 1, every later one a strictly larger handle, no two nodes
   share a handle and no add-node replaces or removes a node. *)
C23_HandlesAllocatedByScene ==
    lastOp.ev = "load_gltf" =>
        /\ log # <<>> => log[1].h = 1
        /\ \A i, j \in DOMAIN log : i < j => log[i].h < log[j].h
        /\ Cardinality(DOMAIN nodes) = Len(log)

(* the document has a node whose single child is a camera that is not a
   perspective camera *)
HasUnsupportedProjection(gltf_bytes) ==
    /\ gltf_bytes.valid
    /\ \E i \in DOMAIN gltf_bytes.nodes :
          LET children == gltf_bytes.nodes[i].children
          IN  /\ Len(children) = 1
              /\ children[1].camera # None
              /\ children[1].camera[1].projection # "Perspective"

(* C30: loading a document with a camera of a non-perspective projection
   gives the caller an error result of load_gltf and does not panic. *)
C30_UnsupportedProjectionIsError ==
    (lastOp.ev # "new" /\ HasUnsupportedProjection(host.gltf_bytes))
        => (lastOp.ev = "load_gltf_err" /\ ~panicked)

-----------------------------------------------------------------------------
(* SpecEntities: entity wrappers, CameraEntity and others, added to a new
   ECSWorld, up to MaxEntities of them *)

MaxEntities == 6

(* the wrapper is a CameraEntity *)
IsCameraEntity(entity) == "camera_render_node_handle" \in DOMAIN entity

EntitiesAdd(entity) ==
    /\ next_entiy_handle <= MaxEntities
    /\ \E ecs \in {ECSWorld_add_entity(
                      [world |-> world, ecs_entities |-> ecs_entities,
                       camera_handles |-> camera_handles,
                       next_entiy_handle |-> next_entiy_handle],
                      entity, IsCameraEntity(entity))} :
          /\ ecs_entities' = ecs.ecs_entities
          /\ camera_handles' = ecs.camera_handles
          /\ next_entiy_handle' = ecs.next_entiy_handle
    /\ EngineStep("add_entity", next_entiy_handle, <<>>)
    /\ UNCHANGED <<world, nodes, scene_cameras, next_handle, started,
                   instance_movement_input, keyboard_input_handlers, panicked,
                   host, hostCalls>>

EntitiesAddCamera ==
    EntitiesAdd([camera_render_node_handle |-> next_entiy_handle,
                 specs_entity_handle |-> next_entiy_handle])

EntitiesAddOther == EntitiesAdd([specs_entity_handle |-> next_entiy_handle])

EntitiesNext ==
    \/ EntitiesAddCamera
    \/ EntitiesAddOther

SpecEntities == Init /\ [][EntitiesNext]_vars

(* the handles of the camera entities among entities, in ascending order,
   which is the order of insertion when handles are given out increasing *)
CameraEntityHandles(entities) ==
    SelectSeq([h \in 1..Cardinality(DOMAIN entities) |-> h],
              LAMBDA h : IsCameraEntity(entities[h]))

(* C24: add_entity returns 1, 2, 3, ... and never reuses a handle;
   camera_handles holds exactly the handles of the camera entities in
   insertion order; get_primary_camera is the first camera entity inserted
   (nothing without a camera) and adding entities does not change it. *)
C24_EntityHandles ==
    [][lastOp'.ev = "add_entity" =>
          /\ lastOp'.h = Cardinality(DOMAIN ecs_entities) + 1
          /\ lastOp'.h \notin DOMAIN ecs_entities
          /\ DOMAIN ecs_entities' = DOMAIN ecs_entities \cup {lastOp'.h}
          /\ \A h \in DOMAIN ecs_entities : ecs_entities'[h] = ecs_entities[h]
          /\ camera_handles' = CameraEntityHandles(ecs_entities')
          /\ get_primary_camera(camera_handles') =
                IF camera_handles' = <<>> THEN None
                ELSE Some(CameraEntityHandles(ecs_entities')[1])
          /\ get_primary_camera(camera_handles) # None =>
                get_primary_camera(camera_handles') = get_primary_camera(camera_handles)]_vars

(* another entity and then a camera were added after camera 2, which is not
   entity 1, became the primary camera *)
C24_Witness ==
    /\ lastOp = Event("add_entity", 4)
    /\ camera_handles = <<2, 4>>
    /\ get_primary_camera(camera_handles) = Some(2)

-----------------------------------------------------------------------------
(* SpecBridge: a client of the library that owns an ECSWorld and a
   RenderScene and makes up to MaxHostCalls calls: add_flying, ticks of
   ECSWorld::update and passes of RenderScene::render, in any order *)

ArgBridgeInputs ==
    {MovementInput_new,
     [MovementInput_new EXCEPT !.forward = TRUE],
     [MovementInput_new EXCEPT !.delta_yaw = 1],
     [MovementInput_new EXCEPT !.delta_pitch = 1],
     [MovementInput_new EXCEPT !.delta_yaw = 1, !.should_roll = TRUE]}

BridgeAddFlying ==
    /\ Counted
    /\ Len(camera_handles) < MaxNodes
    /\ \E direction \in {UnitZ, UnitX} :
       \E made \in {add_flying([world |-> world, ecs_entities |-> ecs_entities,
                                camera_handles |-> camera_handles,
                                next_entiy_handle |-> next_entiy_handle],
                               [nodes |-> nodes, cameras |-> scene_cameras,
                                next_handle |-> next_handle],
                               <<0, 0, -10>>, direction, UnitZ, UnitY, 7000, 1, None, 100)} :
           /\ world' = made.ecs.world
           /\ ecs_entities' = made.ecs.ecs_entities
           /\ camera_handles' = made.ecs.camera_handles
           /\ next_entiy_handle' = made.ecs.next_entiy_handle
           /\ nodes' = made.scene.nodes
           /\ scene_cameras' = made.scene.cameras
           /\ next_handle' = made.scene.next_handle
           /\ EngineStep("add_flying", next_entiy_handle, <<>>)
    /\ UNCHANGED <<started, instance_movement_input, keyboard_input_handlers, panicked, host>>

BridgeUpdate ==
    /\ Counted
    /\ \E input \in ArgBridgeInputs, dispatch_order \in DispatchOrders(dispatcher) :
       \E updated \in {ECSWorld_update(world, ecs_entities, nodes, 1, input,
                                       dispatch_order, camera_handles)} :
           /\ world' = updated.world
           /\ nodes' = updated.nodes
           /\ EngineStep("update", 0, updated.events)
    /\ UNCHANGED <<scene_cameras, next_handle, started, ecs_entities, camera_handles,
                   next_entiy_handle, instance_movement_input, keyboard_input_handlers,
                   panicked, host>>

BridgeRender ==
    /\ Counted
    /\ \E order \in IterationOrders(nodes) :
       \E pass \in {RenderScene_render(nodes, order)} :
           /\ nodes' = pass.nodes
           /\ EngineStep("render", 0, pass.events)
    /\ UNCHANGED <<world, scene_cameras, next_handle, started, ecs_entities, camera_handles,
                   next_entiy_handle, instance_movement_input, keyboard_input_handlers,
                   panicked, host>>

BridgeNext ==
    \/ BridgeAddFlying
    \/ BridgeUpdate
    \/ BridgeRender

SpecBridge == Init /\ [][BridgeNext]_vars

(* after the tick the node of every camera entity has the entity's position
   and the direction its quaternion gives the forward axis *)
BridgeCopied ==
    \A h \in DOMAIN ecs_entities :
        LET s == ecs_entities[h].specs_entity_handle
            camera == nodes[ecs_entities[h].camera_render_node_handle].camera
        IN  /\ camera.position = world.positions[s][1]
            /\ camera.direction =
                  QuatMulVec(world.rotations[s][1].quaternion, world.cameras[s][1].forward_axis)

(* C25: after every ECSWorld.update the render node of each camera entity
   has the entity's position and, as direction, the entity's quaternion
   applied to the forward axis; and a tick that changed neither position,
   quaternion nor fov of an entity leaves a clean camera clean. *)
C25_BridgeCopiesAndKeepsClean ==
    [][lastOp'.ev = "update" =>
          /\ BridgeCopied'
          /\ \A h \in DOMAIN ecs_entities :
                LET s == ecs_entities[h].specs_entity_handle
                    n == ecs_entities[h].camera_render_node_handle
                IN  (/\ world'.positions[s] = world.positions[s]
                     /\ world'.rotations[s][1].quaternion = world.rotations[s][1].quaternion
                     /\ world'.cameras[s][1].fov = world.cameras[s][1].fov
                     /\ ~nodes[n].camera.dirty)
                        => ~nodes'[n].camera.dirty]_vars

-----------------------------------------------------------------------------
(* SpecNode: one camera node of a scene, reached with get_node_by_id and
   driven through set_active, set_inactive, a camera setter, the node's
   update and resolve_dirty_state, in any order *)

NodeInit ==
    /\ CamIdle
    /\ EcsIdle
    /\ EngineNew
    /\ log = <<>>
    /\ \E position \in ArgPositions :
       \E added \in {RenderScene_add_node(<<>>, <<>>, 1,
               CameraRenderNode_new(
                   PerspectiveCamera_new(position, UnitZ, UnitZ, UnitY, 7000, 1, None, 100)))} :
           /\ nodes = added.nodes
           /\ scene_cameras = added.cameras
           /\ next_handle = added.next_handle
           /\ lastOp = Event("add_node", added.handle)

NodeStep(op, n, events) ==
    /\ SceneStep(op, 1, [nodes EXCEPT ![1] = n], events)
    /\ UNCHANGED <<scene_cameras, next_handle>>

NodeSetActive == NodeStep("set_active", set_active(nodes[1]), <<>>)

NodeSetInactive == NodeStep("set_inactive", set_inactive(nodes[1]), <<>>)

NodeSetPosition ==
    \E v \in ArgPositions :
        NodeStep("set_position", [nodes[1] EXCEPT !.camera = set_position(@, v)], <<>>)

NodeResolve ==
    \E resolved \in {resolve_dirty_state(nodes[1], 1)} :
        NodeStep("resolve_dirty_state", resolved.node, resolved.events)

(* CameraRenderNode::update *)
NodeUpdate == NodeStep("update", [nodes[1] EXCEPT !.camera = update(@)], <<>>)

NodeNext ==
    \/ NodeSetActive
    \/ NodeSetInactive
    \/ NodeSetPosition
    \/ NodeUpdate
    \/ NodeResolve

SpecNode == NodeInit /\ [][NodeNext]_vars

(* C26: set_active on an active node and set_inactive on an inactive node
   change nothing; each real transition sets node-dirty; and the resolve
   that follows an activation, the node being still active and node-dirty,
   writes the node's uniform buffer. *)
C26_ActivationIdempotent ==
    [][/\ lastOp'.ev = "set_active" =>
            IF nodes[1].is_active_camera THEN nodes'[1] = nodes[1]
            ELSE /\ nodes'[1].is_active_camera
                 /\ nodes'[1].dirty
                 /\ nodes'[1].camera = nodes[1].camera
       /\ lastOp'.ev = "set_inactive" =>
            IF ~nodes[1].is_active_camera THEN nodes'[1] = nodes[1]
            ELSE /\ ~nodes'[1].is_active_camera
                 /\ nodes'[1].dirty
                 /\ nodes'[1].camera = nodes[1].camera
       /\ (lastOp'.ev = "resolve_dirty_state" /\ nodes[1].is_active_camera /\ nodes[1].dirty) =>
            /\ Written(1)'
            /\ nodes'[1].camera_buffer = nodes'[1].camera.camera_shader_state]_vars

(* set_active was called on a node that was active and clean, and left it
   clean; its buffer had been written by the resolve after its activation *)
C26_Witness ==
    /\ lastOp = Event("set_active", 1)
    /\ nodes[1].is_active_camera
    /\ ~is_dirty(nodes[1])
    /\ nodes[1].camera_buffer = nodes[1].camera.camera_shader_state
    /\ nodes[1].camera_buffer # IdentityBlock

(* C27: is_dirty() is node-dirty or camera-dirty in every state, and right
   after resolve_dirty_state both flags are false, from each of the four
   dirty states and whether the node is active or not. *)
C27_DirtyIsUnionAndResolveCleans ==
    \A h \in DOMAIN nodes :
        /\ is_dirty(nodes[h]) <=> (nodes[h].dirty \/ nodes[h].camera.dirty)
        /\ lastOp.ev = "resolve_dirty_state" =>
              (~nodes[h].dirty /\ ~nodes[h].camera.dirty /\ ~is_dirty(nodes[h]))

(* an inactive node was resolved after its camera had moved: it is clean,
   its camera's shader state was rebuilt, its buffer was not written *)
C27_Witness ==
    /\ lastOp = Event("resolve_dirty_state", 1)
    /\ ~nodes[1].is_active_camera
    /\ ~nodes[1].dirty
    /\ ~nodes[1].camera.dirty
    /\ ~Written(1)
    /\ nodes[1].camera.camera_shader_state # nodes[1].camera_buffer

(* C29: at the end of every FlyingCameraSystem run the cached quaternion of
   every matched entity is the Euler-ZYX quaternion of its roll, yaw and
   pitch, also when all deltas are zero, and nothing later in the tick
   changes either, so the bridge reads a quaternion that agrees with the
   angles. *)
C29_QuaternionFollowsEuler ==
    lastOp.ev = "update" =>
        \A h \in DOMAIN ecs_entities :
            LET s == ecs_entities[h].specs_entity_handle
                rotation == world.rotations[s][1]
                camera == nodes[ecs_entities[h].camera_render_node_handle].camera
            IN  /\ s \in FlyingCameraJoin(world)
                /\ rotation.quaternion =
                      from_euler_ZYX(rotation.roll, rotation.yaw, rotation.pitch)
                /\ camera.direction =
                      QuatMulVec(from_euler_ZYX(rotation.roll, rotation.yaw, rotation.pitch),
                                 world.cameras[s][1].forward_axis)

(* a tick with all deltas zero on an entity that had been turned about two
   axes before *)
C29_Witness ==
    /\ lastOp.ev = "update"
    /\ world.movement_input.delta_yaw = 0
    /\ world.movement_input.delta_pitch = 0
    /\ \E s \in FlyingCameraJoin(world) :
          /\ world.rotations[s][1].yaw = 1
          /\ world.rotations[s][1].roll = 1

-----------------------------------------------------------------------------
(* C31: for a camera entity made by add_flying with a field of view of f
   degrees, the fov of its render node is f in radians directly after
   construction and after every later tick of the ECS world. *)
C31_BridgeKeepsFovInRadians ==
    \A h \in DOMAIN ecs_entities :
        nodes[ecs_entities[h].camera_render_node_handle].camera.fov =
            to_radians(world.cameras[ecs_entities[h].specs_entity_handle][1].fov)

-----------------------------------------------------------------------------
(* SpecPar: one run of NewtonianExplicitIntegratorSystem taken apart into
   the tasks of its par_join, one per joined entity, whose reads and writes
   interleave in any order.  The World holds two moving entities (1, 2) and
   a third that may lack a component. *)

par_join_shares_position(w, e) ==
    [velocity |-> e,
     position |-> CHOOSE x \in IntegratorJoin(w) : \A y \in IntegratorJoin(w) : x <= y]

(* (&velocities, &mut positions).par_join(): the item the task of entity e
   is handed, the velocity and the position of that entity *)
par_join(w, e) == [velocity |-> e, position |-> e]

(* an access of a task to a storage slot or resource *)
Access(task, ev, component, h) == [task |-> task, ev |-> ev, component |-> component, h |-> h]

ParInit ==
    /\ CamIdle
    /\ SceneNew
    /\ EngineNew
    /\ \E third \in ArgSecondEntity :
          world = [World_new EXCEPT
                      !.entities = {1, 2, 3},
                      !.positions = <<Some(<<0, 0, -10>>), Some(<<4, 0, 0>>), third.position>>,
                      !.velocities = <<Some(<<3, 0, 0>>), Some(<<0, 1, 0>>), third.velocity>>,
                      !.rotations = <<None, None, third.rotation>>,
                      !.cameras = <<None, None, third.camera>>]
    /\ worldPre = world
    /\ ecsOp = "new"
    /\ ecsRuns = 0
    /\ tasks = <<>>

ParStep(e, pc, task, w, access) ==
    /\ ecsOp = "par_join"
    /\ e \in DOMAIN tasks
    /\ tasks[e].pc = pc
    /\ tasks' = [tasks EXCEPT ![e] = task]
    /\ world' = w
    /\ log' = log \o access
    /\ UNCHANGED <<camVars, worldPre, ecsOp, ecsRuns, nodes, scene_cameras, next_handle,
                   lastOp, engineVars>>

(* run: the join is split into one task per entity that has both components *)
ParBegin ==
    /\ ecsOp # "par_join"
    /\ ecsRuns < MaxEcsRuns
    /\ \E delta_time \in ArgDeltaTimes :
          /\ world' = [world EXCEPT !.delta_time = delta_time]
          /\ worldPre' = world'
    /\ tasks' = [e \in IntegratorJoin(world) |->
                    [pc |-> "velocity", item |-> par_join(world, e),
                     step |-> ZERO, position |-> ZERO]]
    /\ ecsOp' = "par_join"
    /\ ecsRuns' = ecsRuns + 1
    /\ log' = <<>>
    /\ UNCHANGED <<camVars, nodes, scene_cameras, next_handle, lastOp, engineVars>>

(* velocity.velocity * delta_time.0 *)
ParReadVelocity ==
    \E e \in DOMAIN tasks :
        ParStep(e, "velocity",
                [tasks[e] EXCEPT
                    !.pc = "position",
                    !.step = VScale(world.velocities[tasks[e].item.velocity][1], world.delta_time)],
                world,
                <<Access(e, "read", "delta_time", 0),
                  Access(e, "read", "velocity", tasks[e].item.velocity)>>)

(* position.position += ..., the read *)
ParReadPosition ==
    \E e \in DOMAIN tasks :
        ParStep(e, "position",
                [tasks[e] EXCEPT
                    !.pc = "store",
                    !.position = world.positions[tasks[e].item.position][1]],
                world,
                <<Access(e, "read", "position", tasks[e].item.position)>>)

(* position.position += ..., the write *)
ParWritePosition ==
    \E e \in DOMAIN tasks :
        ParStep(e, "store",
                [tasks[e] EXCEPT !.pc = "done"],
                [world EXCEPT !.positions[tasks[e].item.position] =
                    Some(VAdd(tasks[e].position, tasks[e].step))],
                <<Access(e, "write", "position", tasks[e].item.position)>>)

(* for_each returns when every task has finished *)
ParEnd ==
    /\ ecsOp = "par_join"
    /\ \A e \in DOMAIN tasks : tasks[e].pc = "done"
    /\ ecsOp' = "NewtonianExplicitIntegratorSystem::run"
    /\ tasks' = <<>>
    /\ UNCHANGED <<camVars, world, worldPre, ecsRuns, sceneVars, engineVars>>

ParNext ==
    \/ ParBegin
    \/ ParReadVelocity
    \/ ParReadPosition
    \/ ParWritePosition
    \/ ParEnd

SpecPar == ParInit /\ [][ParNext]_vars

(* the positions in the log that hold an access of the given kind to the
   position of entity e *)
PositionAccesses(ev, e) ==
    {i \in DOMAIN log : log[i].ev = ev /\ log[i].component = "position" /\ log[i].h = e}

(* C32: the result of one integrator run is the same under every
   interleaving of its per-entity tasks: a task reads only its own entity's
   velocity and the shared delta time and reads and writes only its own
   entity's position, no position is touched by two tasks, and when the run
   returns every joined entity has been integrated exactly once, so the
   World is the one a sequential run gives. *)
C32_ParallelIntegrationDeterministic ==
    /\ \A i \in DOMAIN log :
          /\ log[i].component # "delta_time" => log[i].h = log[i].task
          /\ log[i].ev = "write" => log[i].component = "position"
    /\ \A i, j \in DOMAIN log :
          (log[i].component = "position" /\ log[j].component = "position"
              /\ log[i].h = log[j].h) => log[i].task = log[j].task
    /\ ecsOp = "NewtonianExplicitIntegratorSystem::run" =>
          /\ world = NewtonianExplicitIntegratorSystem_run(worldPre)
          /\ \A e \in world.entities :
                Cardinality(PositionAccesses("write", e)) =
                    IF e \in IntegratorJoin(worldPre) THEN 1 ELSE 0

(* a run over three tasks in which the second entity's position was written
   before the first entity's was read, and the third's before both *)
C32_Witness ==
    /\ ecsOp = "NewtonianExplicitIntegratorSystem::run"
    /\ world.delta_time = 2
    /\ IntegratorJoin(worldPre) = {1, 2, 3}
    /\ \E i \in PositionAccesses("write", 3), j \in PositionAccesses("write", 2),
          k \in PositionAccesses("read", 1) : i < j /\ j < k

-----------------------------------------------------------------------------
(* C34: after any sequence of setters, set_active/set_inactive,
   resolve_dirty_state and the node's update() on a camera node added with
   add_new, whenever the node is active and is_dirty() is false its uniform
   buffer equals the camera's current shader-state block. *)
C34_CleanActiveBufferIsCurrent ==
    \A h \in DOMAIN nodes :
        (nodes[h].is_active_camera /\ ~is_dirty(nodes[h]))
            => nodes[h].camera_buffer = nodes[h].camera.camera_shader_state

-----------------------------------------------------------------------------
(* C35: after any sequence of camera setters and update() calls, whenever
   the camera's dirty flag is false its shader-state block is projection x
   view of its current position, direction, up, fov, aspect, near and far;
   and only update() ever clears dirty. *)
C35_CleanShaderStateIsCurrent ==
    [][/\ ~cam'.dirty => cam'.camera_shader_state = view_proj(cam')
       /\ (cam.dirty /\ ~cam'.dirty) => camOp' = "update"]_vars

(* set_rotation with the basis the camera already has, on a camera that
   update() had just cleaned: it stays clean and its block is current *)
C35_Witness ==
    /\ camOp = "set_rotation"
    /\ camPrevOp = "update"
    /\ ~cam.dirty
    /\ cam.position # ZERO
    /\ cam.camera_shader_state = view_proj(cam)
    /\ cam.camera_shader_state # IdentityBlock

-----------------------------------------------------------------------------
(* C36: after any sequence of start, render, resize and input calls every
   entity wrapper of the ECS world names a handle of the render scene
   whose node is a camera node, its ECS entity holds Position, Rotation and
   Camera, and every handle of the camera list is a key of the wrapper
   map: the bridge and resize find every handle and component they unwrap. *)
C36_WrappersResolve ==
    started =>
        /\ \A h \in DOMAIN ecs_entities :
              LET s == ecs_entities[h].specs_entity_handle
                  n == ecs_entities[h].camera_render_node_handle
              IN  /\ n \in DOMAIN nodes
                  /\ "camera" \in DOMAIN nodes[n]
                  /\ s \in world.entities
                  /\ world.positions[s] # None
                  /\ world.rotations[s] # None
                  /\ world.cameras[s] # None
        /\ \A i \in DOMAIN camera_handles : camera_handles[i] \in DOMAIN ecs_entities

(* a resize that walked two cameras, after a frame whose bridge had copied
   a moved position into the first one's node *)
C36_Witness ==
    /\ lastOp.ev = "resize"
    /\ Len(camera_handles) = 2
    /\ \A i \in DOMAIN camera_handles :
          nodes[ecs_entities[camera_handles[i]].camera_render_node_handle].camera.aspect # 100
    /\ world.positions[1] # Some(<<0, 0, -10>>)
    /\ nodes[ecs_entities[1].camera_render_node_handle].camera.position = world.positions[1][1]

-----------------------------------------------------------------------------
(* C37: on an engine that was not started the three mouse handlers succeed
   and set the pending should_roll, delta_yaw and delta_pitch as on a
   started one; start keeps the pending input, and the dispatch of the
   next frame gets it; handle_key_state before start fails on the absent
   core state and changes nothing. *)
C37_InputBeforeStart ==
    [][/\ (~started /\ lastOp'.ev \in {"handle_mouse_button_event", "handle_mouse_motion",
                                       "handle_mouse_wheel"}) =>
            /\ ~panicked'
            /\ ~started'
            /\ instance_movement_input'.should_roll = (host'.middle = "Pressed")
            /\ instance_movement_input'.delta_yaw = SumDeltas(host'.motions, 1)
            /\ instance_movement_input'.delta_pitch = SumDeltas(host'.motions, 2)
       /\ lastOp'.ev = "start" => instance_movement_input' = instance_movement_input
       /\ lastOp'.ev = "render" =>
            /\ world'.movement_input.should_roll = instance_movement_input.should_roll
            /\ world'.movement_input.delta_yaw = instance_movement_input.delta_yaw
            /\ world'.movement_input.delta_pitch = instance_movement_input.delta_pitch
       /\ (~started /\ host'.keys # host.keys) =>
            /\ panicked'
            /\ lastOp'.ev = "handle_key_state_panicked"
            /\ UNCHANGED engineState
       /\ lastOp'.ev = "handle_key_state" => started]_vars

(* right after start: the roll flag and the two motions the host sent
   before start are still pending *)
C37_Witness ==
    /\ lastOp.ev = "start"
    /\ started
    /\ hostCalls = 4
    /\ host.middle = "Pressed"
    /\ Len(host.motions) = 2
    /\ instance_movement_input.should_roll
    /\ instance_movement_input.delta_yaw = -1
    /\ instance_movement_input.delta_pitch = 1

-----------------------------------------------------------------------------
(* SpecRuntime: the event loop of the runtime host.  The engine was started
   before the loop; the loop then handles up to MaxRuntimeEvents window and
   device events: focus changes, window moves, key events of two keyboards,
   middle-button events, wheel and motion events and redraw requests. *)

MaxRuntimeEvents == 7

ArgRuntimeKeys == {<<1, "W">>, <<2, "A">>}

ArgSurfaceViewport == [x |-> 0, y |-> 0, width |-> 2, height |-> 1]

(* the state when event_loop.run is entered: new() and start() were called,
   the window has not reported focus yet *)
RuntimeInit ==
    /\ CamIdle
    /\ worldPre = World_new
    /\ ecsOp = "new"
    /\ ecsRuns = 0
    /\ tasks = <<>>
    /\ \E made \in {add_flying(ECSWorld_new, RenderScene_new, <<0, 0, -10>>, UnitZ,
                               UnitZ, UnitY, 7000, 1, None, 100)} :
           /\ started = TRUE
           /\ world = made.ecs.world
           /\ ecs_entities = made.ecs.ecs_entities
           /\ camera_handles = made.ecs.camera_handles
           /\ next_entiy_handle = made.ecs.next_entiy_handle
           /\ nodes = made.scene.nodes
           /\ scene_cameras = made.scene.cameras
           /\ next_handle = made.scene.next_handle
    /\ keyboard_input_handlers = <<>>
    /\ instance_movement_input = MovementInput_new
    /\ panicked = FALSE
    /\ host = HostNew(NoBytes)
    /\ hostCalls = 0
    /\ log = <<>>
    /\ lastOp = Event("start", 0)

(* one more event taken from the loop *)
RuntimeEvent ==
    /\ hostCalls < MaxRuntimeEvents
    /\ hostCalls' = hostCalls + 1

(* an event whose arm makes no call into the engine *)
RuntimeSkips(op) == Returned(op) /\ UNCHANGED host

(* WindowEvent::Focused *)
RuntimeFocused ==
    \E focused \in BOOLEAN :
        /\ RuntimeEvent
        /\ Returned("Focused")
        /\ host' = [host EXCEPT !.has_focus = focused]

(* WindowEvent::Moved *)
RuntimeMoved ==
    /\ RuntimeEvent
    /\ Returned("Moved")
    /\ host' = [host EXCEPT !.mouse_input_valid = FALSE]

(* WindowEvent::KeyboardInput with a virtual key code *)
RuntimeKeyboardInput ==
    \E ke \in ArgRuntimeKeys, key_state \in {"Pressed", "Released"} :
    \E physical \in {[k \in DOMAIN host.physical \cup {ke} |->
                        IF k = ke THEN key_state ELSE host.physical[k]]} :
        /\ RuntimeEvent
        /\ IF host.has_focus
           THEN /\ keyboard_input_handlers' =
                      set_key_pressed(keyboard_input_handlers, ke[1], ke[2], key_state)
                /\ host' = [host EXCEPT
                              !.keys = [k \in DOMAIN @ \cup {ke} |->
                                           IF k = ke THEN key_state ELSE @[k]],
                              !.first = IF @ = None THEN Some(ke[1]) ELSE @,
                              !.physical = physical]
                /\ EngineStep("handle_key_state", 0, <<>>)
                /\ UNCHANGED <<world, nodes, scene_cameras, next_handle, started,
                               ecs_entities, camera_handles, next_entiy_handle,
                               instance_movement_input, panicked>>
           ELSE /\ Returned("KeyboardInput")
                /\ host' = [host EXCEPT !.physical = physical]

(* WindowEvent::MouseInput *)
RuntimeMouseInput ==
    \E button_state \in {"Pressed", "Released"} :
        /\ RuntimeEvent
        /\ IF host.has_focus
           THEN HandleMouseButtonEvent("Middle", button_state)
           ELSE RuntimeSkips("MouseInput")

(* WindowEvent::MouseWheel *)
RuntimeMouseWheel ==
    /\ RuntimeEvent
    /\ IF host.has_focus THEN HandleMouseWheel ELSE RuntimeSkips("MouseWheel")

(* DeviceEvent::MouseMotion *)
RuntimeMouseMotion ==
    /\ RuntimeEvent
    /\ IF host.mouse_input_valid /\ host.has_focus
       THEN HandleMouseMotion(<<1000, 0>>)
       ELSE RuntimeSkips("MouseMotion")

(* Event::RedrawRequested: the frame is dropped when the surface has no
   texture; otherwise mouse_input_valid is raised once 50 ms have passed
   since the last move and focus change, and the engine renders from the
   primary camera *)
RuntimeRedrawRequested ==
    /\ RuntimeEvent
    /\ \/ RuntimeSkips("RedrawRequested")
       \/ \E mouse_input_valid \in {host.mouse_input_valid, TRUE},
             keyboard \in get_primary_keyboard(keyboard_input_handlers),
             dispatch_order \in DispatchOrders(dispatcher) :
          \E pre \in {pre_render(nodes, scene_cameras, world, ecs_entities,
                                  instance_movement_input, keyboard, 1,
                                  get_primary_camera(camera_handles)[1],
                                  dispatch_order, camera_handles)} :
          \E pass \in {RenderScene_render(pre.nodes, scene_cameras)} :
             /\ world' = pre.world
             /\ instance_movement_input' = pre.movement_input
             /\ nodes' = pass.nodes
             /\ host' = [host EXCEPT !.viewport = ArgSurfaceViewport, !.motions = <<>>,
                                     !.mouse_input_valid = mouse_input_valid]
             /\ EngineStep("render", get_primary_camera(camera_handles)[1],
                           pre.events \o <<Event("set_pipeline", 0)>>
                               \o pass.events \o <<Event("execute_bundles", 0)>>)
             /\ UNCHANGED <<scene_cameras, next_handle, started, ecs_entities,
                            camera_handles, next_entiy_handle,
                            keyboard_input_handlers, panicked>>

RuntimeNext ==
    \/ RuntimeFocused
    \/ RuntimeMoved
    \/ RuntimeKeyboardInput
    \/ RuntimeMouseInput
    \/ RuntimeMouseWheel
    \/ RuntimeMouseMotion
    \/ RuntimeRedrawRequested

SpecRuntime == RuntimeInit /\ [][RuntimeNext]_vars

(* the aggregator holds the key as pressed although the last state the
   window system reported for it is Released: the release was not
   forwarded, and no event for the key was forwarded since *)
Stuck(ke) ==
    /\ ke \in DOMAIN host.physical
    /\ host.physical[ke] = "Released"
    /\ ke[1] \in DOMAIN keyboard_input_handlers
    /\ is_key_pressed(keyboard_input_handlers[ke[1]], ke[2])

(* the movement flag pre_render derives from the key *)
MovementFlag(m, key) == IF key = "W" THEN m.forward ELSE m.left

(* C38: the runtime forwards key, mouse-button, wheel and motion events to
   the engine only while the window has focus; an event that arrives while
   it has none leaves the engine's input state unchanged, so a key whose
   release arrives then stays pressed in the aggregator, and its movement
   flag, true in the frame before, is true in every later frame until a new
   event for that key is forwarded. *)
C38_FocusGatesInput ==
    [][/\ lastOp'.ev \in {"handle_key_state", "handle_mouse_button_event",
                          "handle_mouse_wheel", "handle_mouse_motion"} => host.has_focus
       /\ (~host.has_focus /\ lastOp'.ev \notin {"Focused", "render"}) =>
             UNCHANGED <<instance_movement_input, keyboard_input_handlers>>
       /\ \A ke \in ArgRuntimeKeys :
             /\ (/\ ~host.has_focus
                 /\ ke[1] \in DOMAIN keyboard_input_handlers
                 /\ is_key_pressed(keyboard_input_handlers[ke[1]], ke[2])
                 /\ host'.physical # host.physical
                 /\ host'.physical[ke] = "Released") => Stuck(ke)'
             /\ (/\ lastOp'.ev = "render"
                 /\ Stuck(ke)
                 /\ MovementFlag(world.movement_input, ke[2]))
                   => MovementFlag(world'.movement_input, ke[2])]_vars

====
